---- MODULE Spec2Model ----
(***************************************************************************)
(* Collection state machine of rSearch: the per-audience collection run    *)
(* (ThemeService.collect_posts_for_audience), its three callers (the       *)
(* Scheduler loop update_audience_data, the initial-collection background  *)
(* task collect_initial_data, ThemeService.refresh_themes) and the process *)
(* lifecycle (lifespan).  Every await of the source is one atomic step, so *)
(* that the interleavings of the asyncio tasks on the shared audiences     *)
(* table are the interleavings of the actions below.                       *)
(*                                                                         *)
(* Time is counted in ticks of 30 minutes.                                 *)
(***************************************************************************)
EXTENDS Integers, Sequences, FiniteSets, TLC

\* ---------------------------------------------------------------- bounds
MaxTime == 4          \* the clock stops after MaxTime ticks
MaxPosts == 1         \* most posts one get_subreddit_posts call returns
MaxSubreddits == 2    \* subreddits of the audience stored at startup
MaxNewSubreddits == 1 \* most subreddits of an audience created at run time
MaxItems == 3         \* most items one _batch_process call is given
MaxBatchSize == 2     \* largest batch_size override of a _batch_process call
MaxCalls == 1         \* most invocations of the service from outside the loop
MaxComments == 3      \* comments of the post whose comments are collected
MaxExisting == 1      \* most comments of that post stored before the call
MaxLoopPosts == 2     \* most posts of one subreddit in the post loop
MaxScoreFactor == 2   \* largest score given to a score function, in normalisers
MaxCommentDepth == 2  \* largest depth given to _calculate_comment_engagement
MaxAnalysisPosts == 2 \* posts the classifier is invoked on
MaxAnalyses == 2      \* most _analyze_post calls of one task
MaxCorpusPosts == 4   \* most posts analyze_themes finds for the audience
MaxStorePosts == 2    \* posts of a subreddit that has posts in the store
MaxRequests == 1      \* most requests to the audience and theme routes
MaxDownvotes == 1     \* lowest post score the classifier is given, negated
MaxMatched == 2       \* most keywords of one category a post matches
MaxStoredComments == 2 \* stored comments of the post update_comments is given
MaxAgeHours == 2      \* oldest last update of a stored comment, in hours
MaxMinAgeHours == 2   \* largest min_age_hours of an update_comments call
MaxQuestions == 1     \* ThemeQuestion rows of the audience's themes
MaxThemeCalls == 1    \* most refresh requests of one client

\* ------------------------------------------------------- program constants
HourTicks == 2        \* timedelta(hours=1), in ticks
SleepTicks == 2       \* asyncio.sleep(3600), in ticks
PostShare == 50       \* "50% for posts, 50% for comments"
Done == 100           \* collection_progress of a completed run

NoTime == -1          \* last_collection_time IS NULL
RequestDelay == 1     \* RedditService.request_delay, in seconds
BatchSize == 10       \* RedditService.batch_size
MaxRetries == 3       \* RedditService.max_retries
MaxDepth == 5         \* max_depth of collect_post_comments
MinScore == 1         \* min_score of collect_post_comments, every depth
ServiceMinScore == 2  \* CommentCollectionConfig.min_score
ServiceMinLength == 20 \* CommentCollectionConfig.min_length
NoId == 0             \* Comment.id, Comment.parent_id IS NULL
PostNormaliser == 10000     \* "weighted_score / 10000"
CommentNormaliser == 100    \* "engagement / 100"
CommentWeight == 2          \* "submission.num_comments * 2"
Percent == 100              \* upvote_ratio is counted in hundredths
Tenths == 10                \* the multipliers are counted in tenths
Boost == 12                 \* "weighted_score *= 1.2"
OriginalBoost == 11         \* "weighted_score *= 1.1"
SubmitterMultiplier == 15   \* "multipliers *= 1.5"
DistinguishedMultiplier == 13   \* "multipliers *= 1.3"
AwardMultiplier == 12       \* "multipliers *= 1.2"
MinPostsPerTheme == 3       \* "if len(posts) >= 3"
ThemePostLimit == 10        \* "sorted_posts[:10]"
Ok == 200                   \* a handler that returns
Accepted == 202             \* "status_code=202"
NotFound == 404             \* "status_code=404"
ServerError == 500          \* "status_code=500"
HotScore == 10              \* "p.score > 10"
HotComments == 5            \* "p.num_comments > 5"
ScoreShare == 6             \* "p.score * 0.6", in tenths
CommentShare == 4           \* "p.num_comments * 0.4", in tenths
AdviceKeywords == 11        \* len of the "Advice Requests" keywords
SolutionKeywords == 12      \* len of the "Solution Requests" keywords
LengthNormaliser == 1000    \* "content_length / 1000"
MaxLengthBoost == 500       \* "min(content_length / 1000, 0.5)", in thousandths
SecondsPerHour == 3600      \* "min_age_hours * 3600"

\* Audience.timeframe of every audience of the model: the column's default.
AudienceTimeframe == "year"

\* Audience 1 is in the store when the process starts; audience 2 is created
\* while it runs (create_audience).
Audiences == {1, 2}
StoredAudiences == {1}

Tasks == {"scheduler", "initial", "caller"}

VARIABLES
    audiences,                          \* the audiences table
    now,                                \* datetime.now(timezone.utc)
    should_continue_background_tasks,   \* main.py global
    sched,                              \* the update_audience_data task
    run,                                \* collect_posts_for_audience, per calling task
    initial_task,                       \* the collect_initial_data task
    caller,                             \* a caller of the service from outside the loop
    request,                            \* a RedditService._rate_limited_request call
    batch,                              \* a RedditService._batch_process call
    collect,                            \* a comment collection for one post
    comments_table,                     \* the comments table, rows of that post
    loop,                               \* the post loop of one collection run
    posts_table,                        \* the redditpost table
    engagement,                         \* a call of an engagement score function
    analyzer,                           \* the _analyze_post call of each task
    post_analysis,                      \* the postanalysis table: rows per post
    theme_run,                          \* an analyze_themes call
    cancellation_token,                 \* a CancellationToken given to a collection
    store,                              \* the tables the audience and theme routes use
    classification,                     \* the theme scores _analyze_post computes
    comment_update,                     \* a comment_service.update_comments call
    themes_table                        \* the theme and themequestion tables

\* The variables of the application and those of the Reddit client.
appVars == <<audiences, now, should_continue_background_tasks, sched, run,
             initial_task, caller>>
redditVars == <<request, batch>>
commentVars == <<collect, comments_table>>
postVars == <<loop, posts_table>>
serviceVars == <<classification, comment_update, themes_table>>
themeVars == <<engagement, analyzer, post_analysis, theme_run,
               cancellation_token, store, serviceVars>>
collectionVars == <<appVars, redditVars, commentVars, postVars>>
vars == <<appVars, redditVars, commentVars, postVars, themeVars>>

\* ------------------------------------------------------------- the store
\* models.audience.Audience: is_collecting, collection_progress,
\* last_collection_time and the number of its audience_subreddits rows;
\* "stored" is whether the row exists.
Audience(stored, collecting, progress, lct, subreddits) ==
    [stored |-> stored, is_collecting |-> collecting,
     collection_progress |-> progress, last_collection_time |-> lct,
     subreddits |-> subreddits]

NoRun ==
    [pc |-> "idle", audience_id |-> 0, is_initial_collection |-> FALSE,
     started |-> FALSE, handle_ok |-> TRUE, reset_ok |-> TRUE,
     collection_progress |-> 0, total_subreddits |-> 0, i |-> 0,
     total_posts |-> 0, post_idx |-> 0,
     last_collection_time |-> NoTime, timeframe |-> "none",
     min_created_at |-> NoTime, posts |-> {}]

\* The call collect_posts_for_audience(audience_id, is_initial_collection).
Call(audience_id, is_initial_collection) ==
    [NoRun EXCEPT !.pc = "load", !.audience_id = audience_id,
                  !.is_initial_collection = is_initial_collection]

\* What is left of an invocation once it is over: its outcome.
Over(r, outcome) ==
    [NoRun EXCEPT !.pc = outcome, !.audience_id = r.audience_id,
                  !.started = r.started, !.handle_ok = r.handle_ok]

\* Positions of a run between its start commit and its terminal write.
Collecting == {"subs", "progress", "fetch", "post", "complete"}
\* Positions at which the invocation is over and the caller resumes.
Ended == {"returned", "refused", "raised", "cancelled"}

\* int((i / total_subreddits) * 50); the float expression and the integer
\* quotient agree for every total_subreddits <= 5.
SubredditProgress(i, total_subreddits) == (i * PostShare) \div total_subreddits

\* 50 + int((post_idx / total_posts) * (50 / total_subreddits))
PostProgress(post_idx, total_posts, total_subreddits) ==
    PostShare + ((post_idx * PostShare) \div (total_posts * total_subreddits))

\* Lines 136-158: the arguments of the get_subreddit_posts call.  An
\* incremental run of an audience that was never collected takes the third
\* branch: the audience's own timeframe and no min_created_at.
FetchRequest(is_initial_collection, last_collection_time) ==
    IF is_initial_collection
    THEN [timeframe |-> AudienceTimeframe, min_created_at |-> NoTime]
    ELSE IF last_collection_time # NoTime
         THEN [timeframe |-> "hour", min_created_at |-> last_collection_time]
         ELSE [timeframe |-> AudienceTimeframe, min_created_at |-> NoTime]

\* A variant of the filter that also keeps a submission created exactly at
\* min_created_at.
process_submission_from(created_at, min_created_at) ==
    ~(min_created_at # NoTime /\ created_at < min_created_at)

\* reddit.py lines 137-140: whether process_submission keeps a submission
\* created at created_at (min_score is 0 in every call of the service).
process_submission(created_at, min_created_at) ==
    ~(min_created_at # NoTime /\ created_at <= min_created_at)

\* ------------------------------------- ThemeService.collect_posts_for_audience
\* Lines 99-112: select the audience, raise if it is missing, return if it is
\* already collecting; otherwise lines 115-116 are pending on the session.
RunLoad(t) ==
    /\ run[t].pc = "load"
    /\ LET row == audiences[run[t].audience_id] IN
       run' = [run EXCEPT ![t] =
                 IF ~row.stored THEN [@ EXCEPT !.pc = "recover"]
                 ELSE IF row.is_collecting THEN Over(@, "refused")
                 ELSE [@ EXCEPT !.pc = "start",
                                !.collection_progress = row.collection_progress,
                                !.last_collection_time = row.last_collection_time]]
    /\ UNCHANGED <<audiences, now, should_continue_background_tasks, sched,
                   initial_task, caller, redditVars, commentVars, postVars, themeVars>>

\* Lines 115-117: mark the collection as started and commit.
RunStart(t) ==
    /\ run[t].pc = "start"
    /\ audiences' = [audiences EXCEPT ![run[t].audience_id] =
                       [@ EXCEPT !.is_collecting = TRUE, !.collection_progress = 0]]
    /\ run' = [run EXCEPT ![t] = [@ EXCEPT !.pc = "subs", !.started = TRUE,
                                           !.collection_progress = 0]]
    /\ UNCHANGED <<now, should_continue_background_tasks, sched,
                   initial_task, caller, redditVars, commentVars, postVars, themeVars>>

\* A variant of RunSubreddits without the check of lines 127-128: the for
\* loop over no subreddit is left at once for the terminal write.
RunSubredditsUnchecked(t) ==
    /\ run[t].pc = "subs"
    /\ LET total == audiences[run[t].audience_id].subreddits IN
       run' = [run EXCEPT ![t] =
                 IF total = 0 THEN [@ EXCEPT !.pc = "complete"]
                 ELSE [@ EXCEPT !.pc = "progress", !.total_subreddits = total,
                                !.i = 1]]
    /\ UNCHANGED <<audiences, now, should_continue_background_tasks, sched,
                   initial_task, caller, redditVars, commentVars, postVars, themeVars>>

\* Lines 121-128: load the audience's subreddits; none is a ValueError.
RunSubreddits(t) ==
    /\ run[t].pc = "subs"
    /\ LET total == audiences[run[t].audience_id].subreddits IN
       run' = [run EXCEPT ![t] =
                 IF total = 0 THEN [@ EXCEPT !.pc = "except"]
                 ELSE [@ EXCEPT !.pc = "progress", !.total_subreddits = total,
                                !.i = 1]]
    /\ UNCHANGED <<audiences, now, should_continue_background_tasks, sched,
                   initial_task, caller, redditVars, commentVars, postVars, themeVars>>

\* Lines 130-133: the per-subreddit progress write.
RunProgress(t) ==
    /\ run[t].pc = "progress"
    /\ LET p == SubredditProgress(run[t].i, run[t].total_subreddits) IN
       /\ audiences' = [audiences EXCEPT ![run[t].audience_id] =
                          [@ EXCEPT !.collection_progress = p]]
       /\ run' = [run EXCEPT ![t] = [@ EXCEPT !.pc = "fetch",
                                              !.collection_progress = p]]
    /\ UNCHANGED <<now, should_continue_background_tasks, sched,
                   initial_task, caller, redditVars, commentVars, postVars, themeVars>>

\* The end of the post loop of one subreddit: the next subreddit of the for
\* loop at line 130, or the terminal write after the last one.
NextSubreddit(r) ==
    IF r.i < r.total_subreddits
    THEN [r EXCEPT !.pc = "progress", !.i = r.i + 1, !.total_posts = 0,
                   !.post_idx = 0, !.posts = {}]
    ELSE [r EXCEPT !.pc = "complete", !.total_posts = 0, !.post_idx = 0,
                   !.posts = {}]

\* Lines 136-161: get_subreddit_posts is called with the arguments of the
\* run's mode; the "hot" listing (reddit.py 117-118) returns at most limit
\* submissions of any age, and the posts are those process_submission keeps.
RunFetch(t) ==
    /\ run[t].pc = "fetch"
    /\ \E submissions \in SUBSET (0..now) :
         /\ Cardinality(submissions) <= MaxPosts
         /\ LET args == FetchRequest(run[t].is_initial_collection,
                                     run[t].last_collection_time)
                posts == {created_at \in submissions :
                            process_submission(created_at, args.min_created_at)}
                r == [run[t] EXCEPT !.timeframe = args.timeframe,
                                    !.min_created_at = args.min_created_at]
            IN run' = [run EXCEPT ![t] =
                         IF posts = {} THEN NextSubreddit(r)
                         ELSE [r EXCEPT !.pc = "post", !.posts = posts,
                                        !.total_posts = Cardinality(posts),
                                        !.post_idx = 1]]
    /\ UNCHANGED <<audiences, now, should_continue_background_tasks, sched,
                   initial_task, caller, redditVars, commentVars, postVars, themeVars>>

\* get_subreddit_posts raises (reddit.py 214-216 re-raises every error).
RunFetchFail(t) ==
    /\ run[t].pc = "fetch"
    /\ run' = [run EXCEPT ![t] = [@ EXCEPT !.pc = "except"]]
    /\ UNCHANGED <<audiences, now, should_continue_background_tasks, sched,
                   initial_task, caller, redditVars, commentVars, postVars, themeVars>>

\* Lines 162-220, one post: persisted, its comments collected, analysed and
\* the per-post progress written (ok), or an error of this post caught at
\* line 206 or 218 and the loop continued without a progress write.
RunPost(t) ==
    /\ run[t].pc = "post"
    /\ \E ok \in BOOLEAN :
         LET r == run[t]
             p == IF ok THEN PostProgress(r.post_idx, r.total_posts, r.total_subreddits)
                        ELSE r.collection_progress
             post == CHOOSE c \in r.posts : \A d \in r.posts : c <= d
             r1 == [r EXCEPT !.collection_progress = p, !.posts = @ \ {post}]
         IN /\ audiences' = IF ok
                            THEN [audiences EXCEPT ![r.audience_id] =
                                    [@ EXCEPT !.collection_progress = p]]
                            ELSE audiences
            /\ run' = [run EXCEPT ![t] =
                         IF r.post_idx < r.total_posts
                         THEN [r1 EXCEPT !.post_idx = r.post_idx + 1]
                         ELSE NextSubreddit(r1)]
    /\ UNCHANGED <<now, should_continue_background_tasks, sched,
                   initial_task, caller, redditVars, commentVars, postVars, themeVars>>

\* A variant of the terminal write that generates themes in every mode.
RunCompleteThemesAlways(t) ==
    /\ run[t].pc = "complete"
    /\ audiences' = [audiences EXCEPT ![run[t].audience_id] =
                       [@ EXCEPT !.last_collection_time = now,
                                 !.collection_progress = Done,
                                 !.is_collecting = FALSE]]
    /\ run' = [run EXCEPT ![t] =
                 [@ EXCEPT !.pc = "themes", !.collection_progress = Done]]
    /\ UNCHANGED <<now, should_continue_background_tasks, sched,
                   initial_task, caller, redditVars, commentVars, postVars, themeVars>>

\* Lines 223-230: the terminal write of a successful run; theme generation
\* follows only for an initial collection.
RunComplete(t) ==
    /\ run[t].pc = "complete"
    /\ audiences' = [audiences EXCEPT ![run[t].audience_id] =
                       [@ EXCEPT !.last_collection_time = now,
                                 !.collection_progress = Done,
                                 !.is_collecting = FALSE]]
    /\ run' = [run EXCEPT ![t] =
                 IF run[t].is_initial_collection
                 THEN [@ EXCEPT !.pc = "themes", !.collection_progress = Done]
                 ELSE Over(@, "returned")]
    /\ UNCHANGED <<now, should_continue_background_tasks, sched,
                   initial_task, caller, redditVars, commentVars, postVars, themeVars>>

\* Line 230: analyze_themes returns, or raises its ValueError (line 431).
RunThemes(t) ==
    /\ run[t].pc = "themes"
    /\ \E ok \in BOOLEAN :
         run' = [run EXCEPT ![t] = IF ok THEN Over(@, "returned")
                                   ELSE [@ EXCEPT !.pc = "except"]]
    /\ UNCHANGED <<audiences, now, should_continue_background_tasks, sched,
                   initial_task, caller, redditVars, commentVars, postVars, themeVars>>

\* A commit on the run's own session raises: the session is unusable from
\* then on.  Line 117 is outside the inner try, lines 133 and 226 inside.
RunCommitFail(t) ==
    /\ run[t].pc \in {"start", "progress", "complete"}
    /\ run' = [run EXCEPT ![t] =
                 [@ EXCEPT !.pc = IF run[t].pc = "start" THEN "recover" ELSE "except",
                           !.handle_ok = FALSE]]
    /\ UNCHANGED <<audiences, now, should_continue_background_tasks, sched,
                   initial_task, caller, redditVars, commentVars, postVars, themeVars>>

\* Lines 232-238: the inner handler resets the state on the run's own
\* session and re-raises; its commit raises when that session is unusable.
RunExcept(t) ==
    /\ run[t].pc = "except"
    /\ audiences' = IF run[t].handle_ok
                    THEN [audiences EXCEPT ![run[t].audience_id] =
                            [@ EXCEPT !.is_collecting = FALSE,
                                      !.collection_progress = 0]]
                    ELSE audiences
    /\ run' = [run EXCEPT ![t] = [@ EXCEPT !.pc = "recover",
                                           !.collection_progress = 0]]
    /\ UNCHANGED <<now, should_continue_background_tasks, sched,
                   initial_task, caller, redditVars, commentVars, postVars, themeVars>>

\* A variant of the outer handler that reuses the run's own session instead
\* of opening one: its reset is lost when that session is unusable.
RunRecoverOwnSession(t) ==
    /\ run[t].pc = "recover"
    /\ \E ok \in BOOLEAN :
         /\ audiences' = IF ok /\ run[t].handle_ok
                               /\ audiences[run[t].audience_id].stored
                         THEN [audiences EXCEPT ![run[t].audience_id] =
                                 [@ EXCEPT !.is_collecting = FALSE,
                                           !.collection_progress = 0]]
                         ELSE audiences
         /\ run' = [run EXCEPT ![t] = [Over(@, "raised") EXCEPT !.reset_ok = ok]]
    /\ UNCHANGED <<now, should_continue_background_tasks, sched,
                   initial_task, caller, redditVars, commentVars, postVars, themeVars>>

\* Lines 240-255: the outer handler opens its own session, resets the
\* audience if it finds it, logs an error of that session, and re-raises.
RunRecover(t) ==
    /\ run[t].pc = "recover"
    /\ \E ok \in BOOLEAN :
         /\ audiences' = IF ok /\ audiences[run[t].audience_id].stored
                         THEN [audiences EXCEPT ![run[t].audience_id] =
                                 [@ EXCEPT !.is_collecting = FALSE,
                                           !.collection_progress = 0]]
                         ELSE audiences
         /\ run' = [run EXCEPT ![t] = [Over(@, "raised") EXCEPT !.reset_ok = ok]]
    /\ UNCHANGED <<now, should_continue_background_tasks, sched,
                   initial_task, caller, redditVars, commentVars, postVars, themeVars>>

\* The task running the invocation is cancelled at one of its awaits:
\* asyncio.CancelledError is not an Exception, so neither handler runs.
RunCancel(t) ==
    /\ run[t].pc \in {"load", "start", "themes", "except", "recover"} \cup Collecting
    /\ run' = [run EXCEPT ![t] = Over(@, "cancelled")]
    /\ UNCHANGED <<audiences, now, should_continue_background_tasks, sched,
                   initial_task, caller, redditVars, commentVars, postVars, themeVars>>

\* ------------------------------------------------ main.update_audience_data
\* A variant of the WHERE clause that also takes an audience collected
\* exactly one hour before.
EligibleFromOneHour(row, t) ==
    /\ row.is_collecting = FALSE
    /\ \/ row.last_collection_time = NoTime
       \/ t - row.last_collection_time >= HourTicks

\* The WHERE clause of lines 79-85.
Eligible(row, t) ==
    /\ row.is_collecting = FALSE
    /\ \/ row.last_collection_time = NoTime
       \/ t - row.last_collection_time > HourTicks

\* The orders in which a query without ORDER BY may return the rows S.
Orderings(S) ==
    {q \in [1..Cardinality(S) -> S] : \A m, n \in 1..Cardinality(S) :
                                         q[m] = q[n] => m = n}

NoCycle == [audience_ids |-> <<>>, attempted |-> {}, wake_at |-> 0]

\* Line 74: the loop condition.
SchedWhile ==
    /\ sched.pc = "while"
    /\ sched' = [sched EXCEPT !.pc = IF should_continue_background_tasks
                                      THEN "select" ELSE "exited"]
    /\ UNCHANGED <<audiences, now, should_continue_background_tasks, run,
                   initial_task, caller, redditVars, commentVars, postVars, themeVars>>

\* Lines 76-87: the eligibility query of one cycle.
SchedSelect ==
    /\ sched.pc = "select"
    /\ \E ids \in Orderings({a \in Audiences : /\ audiences[a].stored
                                               /\ Eligible(audiences[a], now)}) :
         sched' = [sched EXCEPT !.pc = "for", !.audience_ids = ids,
                                !.attempted = {}]
    /\ UNCHANGED <<audiences, now, should_continue_background_tasks, run,
                   initial_task, caller, redditVars, commentVars, postVars, themeVars>>

\* Lines 90-93 and 101-102: the next audience of the cycle is collected in
\* incremental mode; after the last one the task sleeps for an hour.
SchedFor ==
    /\ sched.pc = "for"
    /\ LET k == Cardinality(sched.attempted) + 1 IN
       IF k > Len(sched.audience_ids)
       THEN /\ sched' = [sched EXCEPT !.pc = "sleep", !.wake_at = now + SleepTicks]
            /\ run' = run
       ELSE /\ sched' = [sched EXCEPT !.pc = "await",
                                      !.attempted = @ \cup {sched.audience_ids[k]}]
            /\ run' = [run EXCEPT !["scheduler"] = Call(sched.audience_ids[k], FALSE)]
    /\ UNCHANGED <<audiences, now, should_continue_background_tasks,
                   initial_task, caller, redditVars, commentVars, postVars, themeVars>>

\* Lines 93-102 after the call: a return is followed by the one-second delay
\* and the next audience; an exception leaves the for loop for the handler at
\* line 97 and the hourly sleep; a cancellation ends the task.
SchedResume ==
    /\ sched.pc = "await"
    /\ run["scheduler"].pc \in Ended
    /\ sched' = CASE run["scheduler"].pc \in {"returned", "refused"} ->
                       [sched EXCEPT !.pc = "for"]
                  [] run["scheduler"].pc = "raised" ->
                       [sched EXCEPT !.pc = "sleep", !.wake_at = now + SleepTicks]
                  [] OTHER -> [pc |-> "dead"] @@ NoCycle
    /\ run' = [run EXCEPT !["scheduler"] = NoRun]
    /\ UNCHANGED <<audiences, now, should_continue_background_tasks,
                   initial_task, caller, redditVars, commentVars, postVars, themeVars>>

\* Line 102 returns once the hour has passed.  The clock of the model stops
\* at MaxTime, which stands for every later time as well.
SchedWake ==
    /\ sched.pc = "sleep"
    /\ now >= sched.wake_at \/ now = MaxTime
    /\ sched' = [pc |-> "while"] @@ NoCycle
    /\ UNCHANGED <<audiences, now, should_continue_background_tasks, run,
                   initial_task, caller, redditVars, commentVars, postVars, themeVars>>

\* main.lifespan, lines 114-117: shutdown clears the flag and awaits the task.
Shutdown ==
    /\ should_continue_background_tasks
    /\ should_continue_background_tasks' = FALSE
    /\ UNCHANGED <<audiences, now, sched, run, initial_task, caller, redditVars, commentVars, postVars, themeVars>>

\* Half an hour passes.
Tick ==
    /\ now < MaxTime
    /\ now' = now + 1
    /\ UNCHANGED <<audiences, should_continue_background_tasks, sched, run,
                   initial_task, caller, redditVars, commentVars, postVars, themeVars>>

\* ------------------------------------------ routers.audiences (initial data)
\* create_audience, lines 90-140: the row is inserted with is_collecting set
\* and collect_initial_data is scheduled for it.
CreateAudience ==
    /\ initial_task.pc = "none"
    /\ \E a \in Audiences, subreddit_names \in 0..MaxNewSubreddits :
         /\ ~audiences[a].stored
         /\ audiences' = [audiences EXCEPT ![a] =
                            Audience(TRUE, TRUE, 0, NoTime, subreddit_names)]
         /\ initial_task' = [pc |-> "get", audience_id |-> a, exc |-> "none"]
    /\ UNCHANGED <<now, should_continue_background_tasks, sched, run,
                   caller, redditVars, commentVars, postVars, themeVars>>

\* collect_initial_data, lines 38-45.
InitialGet ==
    /\ initial_task.pc = "get"
    /\ initial_task' = [initial_task EXCEPT !.pc =
                          IF audiences[initial_task.audience_id].stored
                          THEN "flag" ELSE "done"]
    /\ UNCHANGED <<audiences, now, should_continue_background_tasks, sched, run,
                   caller, redditVars, commentVars, postVars, themeVars>>

\* Lines 48-56: the flag is set and committed, then the collection is called
\* in initial mode on the same session.
InitialFlag ==
    /\ initial_task.pc = "flag"
    /\ audiences' = [audiences EXCEPT ![initial_task.audience_id] =
                       [@ EXCEPT !.is_collecting = TRUE]]
    /\ run' = [run EXCEPT !["initial"] = Call(initial_task.audience_id, TRUE)]
    /\ initial_task' = [initial_task EXCEPT !.pc = "await"]
    /\ UNCHANGED <<now, should_continue_background_tasks, sched,
                   caller, redditVars, commentVars, postVars, themeVars>>

\* Line 56 is over: line 57 follows a return, the finally block anything else.
InitialResume ==
    /\ initial_task.pc = "await"
    /\ run["initial"].pc \in Ended
    /\ initial_task' =
         CASE run["initial"].pc \in {"returned", "refused"} ->
                [initial_task EXCEPT !.pc = "themes"]
           [] run["initial"].pc = "raised" ->
                [initial_task EXCEPT !.pc = "finally", !.exc = "error"]
           [] OTHER -> [initial_task EXCEPT !.pc = "finally", !.exc = "cancelled"]
    /\ run' = [run EXCEPT !["initial"] = NoRun]
    /\ UNCHANGED <<audiences, now, should_continue_background_tasks, sched,
                   caller, redditVars, commentVars, postVars, themeVars>>

\* Line 57: analyze_themes returns or raises.
InitialThemes ==
    /\ initial_task.pc = "themes"
    /\ \E ok \in BOOLEAN :
         initial_task' = [initial_task EXCEPT !.pc = "finally",
                                              !.exc = IF ok THEN "none" ELSE "error"]
    /\ UNCHANGED <<audiences, now, should_continue_background_tasks, sched, run,
                   caller, redditVars, commentVars, postVars, themeVars>>

\* Lines 59-66: the finally block clears the flag, whatever happened.
InitialFinally ==
    /\ initial_task.pc = "finally"
    /\ audiences' = [audiences EXCEPT ![initial_task.audience_id] =
                       [@ EXCEPT !.is_collecting = FALSE]]
    /\ initial_task' = [initial_task EXCEPT !.pc = IF initial_task.exc = "error"
                                                   THEN "except" ELSE "done"]
    /\ UNCHANGED <<now, should_continue_background_tasks, sched, run,
                   caller, redditVars, commentVars, postVars, themeVars>>

\* Lines 68-80: the handler of an Exception clears the flag again.
InitialExcept ==
    /\ initial_task.pc = "except"
    /\ audiences' = [audiences EXCEPT ![initial_task.audience_id] =
                       [@ EXCEPT !.is_collecting = FALSE]]
    /\ initial_task' = [initial_task EXCEPT !.pc = "done"]
    /\ UNCHANGED <<now, should_continue_background_tasks, sched, run,
                   caller, redditVars, commentVars, postVars, themeVars>>

\* ------------------------------------------------ ThemeService.refresh_themes
\* Lines 576-612: the old themes are deleted and the collection is called in
\* incremental mode.
RefreshCall ==
    /\ caller.pc = "idle"
    /\ caller.calls < MaxCalls
    /\ \E a \in Audiences :
         run' = [run EXCEPT !["caller"] = Call(a, FALSE)]
    /\ caller' = [pc |-> "refresh_themes", calls |-> caller.calls + 1]
    /\ UNCHANGED <<audiences, now, should_continue_background_tasks, sched,
                   initial_task, redditVars, commentVars, postVars, themeVars>>

\* Lines 613-634: analyze_themes and the question update after a return, the
\* rollback of the handler after an exception; none writes the audience.
RefreshResume ==
    /\ caller.pc = "refresh_themes"
    /\ run["caller"].pc \in Ended
    /\ caller' = [caller EXCEPT !.pc = "idle"]
    /\ run' = [run EXCEPT !["caller"] = NoRun]
    /\ UNCHANGED <<audiences, now, should_continue_background_tasks, sched,
                   initial_task, redditVars, commentVars, postVars, themeVars>>

\* ------------------------- a direct caller of collect_posts_for_audience
\* The service method called on its own, in either mode (as the tests do).
DirectCall ==
    /\ caller.pc = "idle"
    /\ caller.calls < MaxCalls
    /\ \E a \in Audiences, is_initial_collection \in BOOLEAN :
         run' = [run EXCEPT !["caller"] = Call(a, is_initial_collection)]
    /\ caller' = [pc |-> "direct", calls |-> caller.calls + 1]
    /\ UNCHANGED <<audiences, now, should_continue_background_tasks, sched,
                   initial_task, redditVars, commentVars, postVars, themeVars>>

DirectResume ==
    /\ caller.pc = "direct"
    /\ run["caller"].pc \in Ended
    /\ caller' = [caller EXCEPT !.pc = "idle"]
    /\ run' = [run EXCEPT !["caller"] = NoRun]
    /\ UNCHANGED <<audiences, now, should_continue_background_tasks, sched,
                   initial_task, redditVars, commentVars, postVars, themeVars>>

\* ------------------------------------------------------- the server process
\* What a task of a process that has ended leaves behind: nothing.
Lost(task) ==
    IF task.pc = "none" THEN task ELSE [task EXCEPT !.pc = "done", !.exc = "none"]

\* The process is killed: every task stops where it is, no handler runs.
Crash ==
    /\ sched.pc # "dead"
    /\ sched' = [pc |-> "dead"] @@ NoCycle
    /\ run' = [t \in Tasks |-> NoRun]
    /\ initial_task' = Lost(initial_task)
    /\ caller' = [caller EXCEPT !.pc = "idle"]
    /\ UNCHANGED <<audiences, now, should_continue_background_tasks, redditVars, commentVars, postVars, themeVars>>

\* main.py line 70 and lifespan lines 106-110: once the loop has ended, a new
\* process initialises the tables (create_all writes no row) and starts the
\* loop again; what was left of the old process is gone.
Restart ==
    /\ sched.pc \in {"dead", "exited"}
    /\ should_continue_background_tasks' = TRUE
    /\ sched' = [pc |-> "while"] @@ NoCycle
    /\ run' = [t \in Tasks |-> NoRun]
    /\ initial_task' = Lost(initial_task)
    /\ caller' = [caller EXCEPT !.pc = "idle"]
    /\ UNCHANGED <<audiences, now, redditVars, commentVars, postVars, themeVars>>

\* ------------------------------------- RedditService._rate_limited_request
\* One call: the iteration of the for loop, whether the coroutine object it
\* was given has been awaited, how often the wrapped operation ran, the
\* backoff waits made so far and the number of base delays.
NoRequest ==
    [pc |-> "idle", attempt |-> 0, awaited |-> FALSE, executions |-> 0,
     backoffs |-> <<>>, delays |-> 0, result |-> "none", error |-> "none"]

\* What one execution of the wrapped operation does: it returns a value or
\* None, or raises TooManyRequests or another Exception.
Outcomes == {"value", "None", "TooManyRequests", "Exception"}

\* Line 765: the base delay before every attempt.
RequestDelaySleep ==
    /\ request.pc = "sleep"
    /\ request' = [request EXCEPT !.pc = "await", !.delays = @ + 1]
    /\ UNCHANGED <<appVars, batch, commentVars, postVars, themeVars>>

\* A variant of lines 766-778 whose first handler takes every Exception for
\* the rate-limit signal and retries it.
RequestAwaitRetryAll ==
    /\ request.pc = "await"
    /\ IF request.awaited
       THEN request' = [request EXCEPT !.pc = "raised", !.error = "RuntimeError"]
       ELSE \E outcome \in Outcomes :
              request' =
                [request EXCEPT
                   !.awaited = TRUE,
                   !.executions = @ + 1,
                   !.pc = CASE outcome \in {"value", "None"} -> "returned"
                            [] outcome \in {"TooManyRequests", "Exception"}
                                 /\ request.attempt # MaxRetries - 1 -> "backoff"
                            [] OTHER -> "raised",
                   !.result = IF outcome \in {"value", "None"} THEN outcome
                                                                ELSE "none",
                   !.error = IF outcome \in {"value", "None"} THEN "none"
                                                               ELSE outcome]
    /\ UNCHANGED <<appVars, batch, commentVars, postVars, themeVars>>

\* Lines 766-778: `await coroutine`.  The first await runs the wrapped
\* operation; a coroutine object that was already awaited raises
\* RuntimeError("cannot reuse already awaited coroutine"), which the handler
\* of line 776 logs and re-raises.  TooManyRequests is re-raised on the last
\* attempt (lines 768-770) and otherwise followed by the backoff.
RequestAwait ==
    /\ request.pc = "await"
    /\ IF request.awaited
       THEN request' = [request EXCEPT !.pc = "raised", !.error = "RuntimeError"]
       ELSE \E outcome \in Outcomes :
              request' =
                [request EXCEPT
                   !.awaited = TRUE,
                   !.executions = @ + 1,
                   !.pc = CASE outcome \in {"value", "None"} -> "returned"
                            [] outcome = "TooManyRequests"
                                 /\ request.attempt # MaxRetries - 1 -> "backoff"
                            [] OTHER -> "raised",
                   !.result = IF outcome \in {"value", "None"} THEN outcome
                                                                ELSE "none",
                   !.error = IF outcome \in {"value", "None"} THEN "none"
                                                               ELSE outcome]
    /\ UNCHANGED <<appVars, batch, commentVars, postVars, themeVars>>

\* Lines 772-775: the exponential backoff, then the next iteration.
RequestBackoff ==
    /\ request.pc = "backoff"
    /\ request' = [request EXCEPT
                     !.pc = "sleep",
                     !.backoffs = Append(@, RequestDelay * (2 ^ request.attempt)),
                     !.attempt = @ + 1]
    /\ UNCHANGED <<appVars, batch, commentVars, postVars, themeVars>>

\* --------------------------------------------- RedditService._batch_process
\* One call: the items still to come from the iterator (numbered in arrival
\* order), the effective batch size, the current batch and the position in
\* it, the results, what became of each item, and the delays between batches.
NoBatch ==
    [pc |-> "idle", items |-> 0, batch_size |-> 0, next |-> 1,
     current_batch |-> <<>>, k |-> 0, final |-> FALSE, results |-> <<>>,
     outcome |-> <<>>, delays |-> <<>>]

\* Line 789: `batch_size or self.batch_size`; no override is None.
BatchCall(items, batch_size) ==
    [NoBatch EXCEPT !.pc = "for", !.items = items,
                    !.batch_size = IF batch_size = 0 THEN BatchSize ELSE batch_size,
                    !.outcome = [item \in 1..items |-> "pending"]]

\* Lines 793-796 and 815-816: the next item joins the current batch, which
\* is processed once it is full; when the iterator is exhausted the
\* remaining items are processed, or the results returned.
BatchFor ==
    /\ batch.pc = "for"
    /\ batch' =
         IF batch.next <= batch.items
         THEN LET current_batch == Append(batch.current_batch, batch.next) IN
              IF Len(current_batch) >= batch.batch_size
              THEN [batch EXCEPT !.next = @ + 1, !.current_batch = current_batch,
                                 !.pc = "batch", !.k = 1, !.final = FALSE]
              ELSE [batch EXCEPT !.next = @ + 1, !.current_batch = current_batch]
         ELSE IF batch.current_batch # <<>>
              THEN [batch EXCEPT !.pc = "batch", !.k = 1, !.final = TRUE]
              ELSE [batch EXCEPT !.pc = "returned"]
    /\ UNCHANGED <<appVars, request, commentVars, postVars, themeVars>>

\* Lines 798-803 and 817-822: process_func(batch_item) is handed to
\* _rate_limited_request.
BatchItem ==
    /\ batch.pc = "batch"
    /\ request' = [NoRequest EXCEPT !.pc = "sleep"]
    /\ batch' = [batch EXCEPT !.pc = "await"]
    /\ UNCHANGED <<appVars, commentVars, postVars, themeVars>>

\* A variant of lines 804-813 and 823-827 in which an item that raises ends
\* the processing of its batch.
BatchResumeAbort ==
    /\ batch.pc = "await"
    /\ request.pc \in {"returned", "raised"}
    /\ LET item == batch.current_batch[batch.k]
           last == batch.k = Len(batch.current_batch) \/ request.pc = "raised"
       IN batch' =
            [batch EXCEPT
               !.results = IF request.pc = "returned" /\ request.result # "None"
                           THEN Append(@, item) ELSE @,
               !.outcome[item] = IF request.pc = "returned" THEN request.result
                                                            ELSE "raised",
               !.k = IF last THEN 0 ELSE @ + 1,
               !.current_batch = IF last THEN <<>> ELSE @,
               !.pc = IF ~last THEN "batch"
                      ELSE IF batch.final THEN "returned" ELSE "delay"]
    /\ request' = NoRequest
    /\ UNCHANGED <<appVars, commentVars, postVars, themeVars>>

\* Lines 804-813 and 823-827: a result that is not None is appended; an
\* Exception is logged and the loop continues with the next item; after the
\* last item of a full batch the batch is emptied and the delay follows,
\* after the last of the remaining items the results are returned.
BatchResume ==
    /\ batch.pc = "await"
    /\ request.pc \in {"returned", "raised"}
    /\ LET item == batch.current_batch[batch.k]
           last == batch.k = Len(batch.current_batch)
       IN batch' =
            [batch EXCEPT
               !.results = IF request.pc = "returned" /\ request.result # "None"
                           THEN Append(@, item) ELSE @,
               !.outcome[item] = IF request.pc = "returned" THEN request.result
                                                            ELSE "raised",
               !.k = IF last THEN 0 ELSE @ + 1,
               !.current_batch = IF last THEN <<>> ELSE @,
               !.pc = IF ~last THEN "batch"
                      ELSE IF batch.final THEN "returned" ELSE "delay"]
    /\ request' = NoRequest
    /\ UNCHANGED <<appVars, commentVars, postVars, themeVars>>

\* Line 813: the delay between batches, twice the base delay.
BatchDelay ==
    /\ batch.pc = "delay"
    /\ batch' = [batch EXCEPT !.pc = "for", !.delays = Append(@, RequestDelay * 2)]
    /\ UNCHANGED <<appVars, request, commentVars, postVars, themeVars>>

\* ----------------------------------------------------- comment collection
\* The comments of one post as Reddit serves them.  Comment c has the
\* external id c; parent_id[c] is the comment it replies to, 0 for the post
\* ("t3_"); the replies of a comment are listed in the order of their ids.
\* A comment was written before its replies, hence parent_id[c] < c.
CommentIds == 1..MaxComments

Forests ==
    {f \in [CommentIds -> 0..MaxComments] : \A c \in CommentIds : f[c] < c}

\* What a raw comment carries: whether it has an author and a creation time
\* (a deleted or removed placeholder has neither and the body "[deleted]",
\* nine characters), the length of its body, its score.
RawComments ==
    { [author |-> TRUE,  body |-> 25, score |-> 4],
      [author |-> TRUE,  body |-> 25, score |-> 2],
      [author |-> TRUE,  body |-> 25, score |-> 0],
      [author |-> TRUE,  body |-> 5,  score |-> 4],
      [author |-> FALSE, body |-> 9,  score |-> 4] }

\* The arguments of a collection: max_depth and the min_score map, its keys
\* that are depths and its 'default' entry.  The first is the call of
\* collect_posts_for_audience, the second a caller that asks more of
\* top-level comments and stops at the first level of replies.
Configs ==
    { [max_depth |-> MaxDepth,
       min_score |-> [by_depth |-> [d \in 0..2 |-> MinScore],
                      default |-> MinScore]],
      [max_depth |-> 1,
       min_score |-> [by_depth |-> [d \in {0} |-> MinScore + 2],
                      default |-> MinScore]] }

RECURSIVE SetToSeq(_)
SetToSeq(S) ==
    IF S = {} THEN <<>>
    ELSE LET m == CHOOSE x \in S : \A y \in S : x <= y
         IN  <<m>> \o SetToSeq(S \ {m})

\* comment_data.replies; submission.comments for c = 0.
Replies(submission, c) ==
    SetToSeq({r \in CommentIds : submission.parent_id[r] = c})

\* comment_data.depth, as PRAW sets it: the nesting level in the forest.
RECURSIVE CommentDepth(_, _)
CommentDepth(submission, c) ==
    IF submission.parent_id[c] = 0 THEN 0
    ELSE 1 + CommentDepth(submission, submission.parent_id[c])

\* min_score.get(comment_data.depth, min_score.get('default', 1)), line 599.
min_score_at_depth(config, depth) ==
    IF depth \in DOMAIN config.min_score.by_depth
    THEN config.min_score.by_depth[depth]
    ELSE config.min_score.default

\* process_comment of collect_post_comments (lines 576-642): whether the raw
\* comment yields a Comment.  No length is asked of the body beyond its not
\* being empty.
process_comment_any_score(submission, config, c) ==
    LET comment_data == submission.data[c]
    IN  comment_data.author /\ comment_data.body > 0

process_comment(submission, config, c) ==
    LET comment_data == submission.data[c]
    IN  /\ comment_data.author
        /\ comment_data.body > 0
        /\ comment_data.score >=
             min_score_at_depth(config, CommentDepth(submission, c))

\* The Comment of lines 611-637: the depth is the raw comment's, the path is
\* empty, the parent is known by its external id only.
Comment(submission, c) ==
    [reddit_id |-> c, id |-> NoId, parent_id |-> NoId,
     depth |-> CommentDepth(submission, c), path |-> <<>>,
     reddit_parent_id |-> submission.parent_id[c]]

\* process_comment_tree of collect_post_comments (lines 645-673): the
\* external ids of the comments it returns, in order.  The replies of a raw
\* comment are processed whether or not the comment itself was kept.
RECURSIVE process_comment_tree_replies_first(_, _, _, _)
process_comment_tree_replies_first(submission, config, comments_list, depth) ==
    IF depth > config.max_depth \/ comments_list = <<>> THEN <<>>
    ELSE LET comment_data == Head(comments_list)
         IN  process_comment_tree_replies_first(
                 submission, config, Replies(submission, comment_data), depth + 1)
               \o (IF process_comment(submission, config, comment_data)
                   THEN <<comment_data>> ELSE <<>>)
               \o process_comment_tree_replies_first(
                      submission, config, Tail(comments_list), depth)

RECURSIVE process_comment_tree_kept_only(_, _, _, _)
process_comment_tree_kept_only(submission, config, comments_list, depth) ==
    IF depth > config.max_depth \/ comments_list = <<>> THEN <<>>
    ELSE LET comment_data == Head(comments_list)
         IN  (IF process_comment(submission, config, comment_data)
              THEN <<comment_data>>
                     \o process_comment_tree_kept_only(
                            submission, config,
                            Replies(submission, comment_data), depth + 1)
              ELSE <<>>)
               \o process_comment_tree_kept_only(
                      submission, config, Tail(comments_list), depth)

RECURSIVE process_comment_tree(_, _, _, _)
process_comment_tree(submission, config, comments_list, depth) ==
    IF depth > config.max_depth \/ comments_list = <<>> THEN <<>>
    ELSE LET comment_data == Head(comments_list)
         IN  (IF process_comment(submission, config, comment_data)
              THEN <<comment_data>> ELSE <<>>)
               \o process_comment_tree(
                      submission, config, Replies(submission, comment_data),
                      depth + 1)
               \o process_comment_tree(
                      submission, config, Tail(comments_list), depth)

\* process_comment_tree of comment_service.py (lines 30-97): the Comments of
\* one raw comment and its replies.  A comment that is too short or scores too
\* low ends the recursion for its subtree; parent.id is read while the parent
\* is not yet stored.
RECURSIVE service_process_comment_tree(_, _, _, _, _)
RECURSIVE service_process_replies(_, _, _, _, _)
service_process_comment_tree(submission, config, c, depth, parent) ==
    LET comment_data == submission.data[c]
    IN  IF depth > config.max_depth THEN <<>>
        ELSE IF \/ comment_data.body < ServiceMinLength
                \/ comment_data.score < ServiceMinScore THEN <<>>
        ELSE LET comment ==
                   [reddit_id |-> c, id |-> NoId,
                    parent_id |-> IF parent = <<>> THEN NoId ELSE parent[1].id,
                    depth |-> depth,
                    path |-> IF parent = <<>> THEN <<>>
                             ELSE Append(parent[1].path, parent[1].id),
                    reddit_parent_id |-> submission.parent_id[c]]
             IN  <<comment>>
                   \o service_process_replies(
                          submission, config, Replies(submission, c),
                          depth + 1, <<comment>>)

service_process_replies(submission, config, replies, depth, parent) ==
    IF replies = <<>> THEN <<>>
    ELSE service_process_comment_tree(
             submission, config, Head(replies), depth, parent)
           \o service_process_replies(
                  submission, config, Tail(replies), depth, parent)

\* The rows of the comments table, in the order of their ids: the id of a
\* row is its position.
RowOf(table, reddit_id) ==
    CHOOSE i \in 1..Len(table) : table[i].reddit_id = reddit_id

Stored(table) == {table[i].reddit_id : i \in 1..Len(table)}

\* What an earlier collection stored of the post's comments.
ExistingRows(submission, existing) ==
    LET ids == SetToSeq(existing)
    IN  [i \in 1..Len(ids) |->
           [Comment(submission, ids[i]) EXCEPT
              !.id = i,
              !.parent_id =
                 IF submission.parent_id[ids[i]] \in existing
                 THEN CHOOSE j \in 1..Len(ids) :
                        ids[j] = submission.parent_id[ids[i]]
                 ELSE NoId]]

\* The objects of the session written to their rows (commit).
Commit(table, comments) ==
    LET listed(reddit_id) ==
          CHOOSE k \in 1..Len(comments) : comments[k].reddit_id = reddit_id
        kept ==
          [i \in 1..Len(table) |->
             IF \E k \in 1..Len(comments) :
                  comments[k].reddit_id = table[i].reddit_id
             THEN comments[listed(table[i].reddit_id)]
             ELSE table[i]]
        added ==
          SelectSeq(comments, LAMBDA c : c.reddit_id \notin Stored(table))
    IN  kept \o added

NoCollect ==
    [pc |-> "none", service |-> "none",
     submission |-> [parent_id |-> <<>>, data |-> <<>>],
     config |-> [max_depth |-> 0,
                 min_score |-> [by_depth |-> <<>>, default |-> 0]],
     existing_comments |-> {}, comments |-> <<>>, returned |-> <<>>]

\* A collection about to be made for a post of the given comments.
CollectCall(submission, config, existing) ==
    [NoCollect EXCEPT !.pc = "call", !.submission = submission,
                      !.config = config, !.existing_comments = existing]

\* collect_post_comments, lines 565-676: the existing comments are loaded
\* and the tree is processed; a comment that is stored already is the stored
\* object, overwritten with the fields of the new one (lines 655-662).
Processed(submission, config, existing_comments, table) ==
    LET ids == process_comment_tree(submission, config,
                                    Replies(submission, 0), 0)
    IN  [i \in 1..Len(ids) |->
           IF ids[i] \in existing_comments
           THEN [Comment(submission, ids[i]) EXCEPT
                   !.id = RowOf(table, ids[i])]
           ELSE Comment(submission, ids[i])]

CollectTree ==
    /\ collect.pc = "call"
    /\ collect' =
         [collect EXCEPT
            !.pc = "save",
            !.service = "reddit",
            !.comments = Processed(collect.submission, collect.config,
                                   collect.existing_comments, comments_table)]
    /\ UNCHANGED <<appVars, redditVars, comments_table, postVars, themeVars>>

\* Lines 678-691: the new comments are added and committed, and refreshed
\* to get their ids (one batch: batch_size exceeds MaxComments).
Refreshed(comments, existing_comments, table) ==
    LET new_comments ==
          SelectSeq(comments, LAMBDA c : c.reddit_id \notin existing_comments)
        position(reddit_id) ==
          CHOOSE k \in 1..Len(new_comments) :
            new_comments[k].reddit_id = reddit_id
    IN  [i \in 1..Len(comments) |->
           IF comments[i].reddit_id \in existing_comments
           THEN comments[i]
           ELSE [comments[i] EXCEPT
                   !.id = Len(table) + position(comments[i].reddit_id)]]

CollectSave ==
    /\ collect.pc = "save"
    /\ LET refreshed == Refreshed(collect.comments, collect.existing_comments,
                                  comments_table)
       IN  /\ collect' = [collect EXCEPT !.pc = "parents",
                                         !.comments = refreshed]
           /\ comments_table' =
                IF \A i \in 1..Len(refreshed) :
                     refreshed[i].reddit_id \in collect.existing_comments
                THEN comments_table
                ELSE Commit(comments_table, refreshed)
    /\ UNCHANGED <<appVars, redditVars, postVars, themeVars>>

\* Lines 693-707: the parent of every comment whose parent is in
\* comment_map and has an id is set, and the session is committed.
Linked(comments) ==
    LET in_map(reddit_id) ==
          \E k \in 1..Len(comments) : comments[k].reddit_id = reddit_id
        comment_map(reddit_id) ==
          comments[CHOOSE k \in 1..Len(comments) :
                     comments[k].reddit_id = reddit_id]
    IN  [i \in 1..Len(comments) |->
           IF /\ comments[i].reddit_parent_id # 0
              /\ in_map(comments[i].reddit_parent_id)
              /\ comment_map(comments[i].reddit_parent_id).id # NoId
           THEN [comments[i] EXCEPT
                   !.parent_id = comment_map(comments[i].reddit_parent_id).id]
           ELSE comments[i]]

CollectParents ==
    /\ collect.pc = "parents"
    /\ LET linked == Linked(collect.comments)
       IN  /\ collect' = [collect EXCEPT !.pc = "return", !.comments = linked]
           /\ comments_table' = Commit(comments_table, linked)
    /\ UNCHANGED <<appVars, redditVars, postVars, themeVars>>

\* The list collect_post_comments returns for a post.
collect_post_comments(submission, config, existing_comments, table) ==
    Linked(Refreshed(Processed(submission, config, existing_comments, table),
                     existing_comments, table))

\* Line 713: every processed comment is returned.
CollectReturn ==
    /\ collect.pc = "return"
    /\ collect' = [collect EXCEPT !.pc = "returned",
                                  !.returned = collect.comments]
    /\ UNCHANGED <<appVars, redditVars, comments_table, postVars, themeVars>>

\* collect_comments_for_post of comment_service.py, lines 129-151.
ServiceTree ==
    /\ collect.pc = "call"
    /\ collect' =
         [collect EXCEPT
            !.pc = "service_save",
            !.service = "comment_service",
            !.comments =
               service_process_replies(collect.submission, collect.config,
                                       Replies(collect.submission, 0), 0, <<>>)]
    /\ UNCHANGED <<appVars, redditVars, comments_table, postVars, themeVars>>

\* Lines 153-161: the comments not stored yet are added in a transaction of
\* their own and returned.
ServiceSave ==
    /\ collect.pc = "service_save"
    /\ LET new_comments ==
             SelectSeq(collect.comments,
                       LAMBDA c : c.reddit_id \notin collect.existing_comments)
           flushed ==
             [i \in 1..Len(new_comments) |->
                [new_comments[i] EXCEPT !.id = Len(comments_table) + i]]
       IN  /\ collect' = [collect EXCEPT !.pc = "returned",
                                         !.returned = flushed]
           /\ comments_table' = comments_table \o flushed
    /\ UNCHANGED <<appVars, redditVars, postVars, themeVars>>

\* ------------------------------------------------------- the post loop
\* collect_posts_for_audience from line 130 on, post by post.  A post is the
\* pair <<i, k>>: the k-th post get_subreddit_posts returned for the i-th
\* subreddit.  session_ok is whether the run's session can still be used: a
\* commit that raises leaves it in a failed transaction, and nothing in the
\* loop rolls it back.
NoLoop ==
    [pc |-> "none", total_subreddits |-> 0, i |-> 0, total_posts |-> 0,
     post_idx |-> 0, session_ok |-> TRUE, is_collecting |-> FALSE,
     collection_progress |-> 0, stored |-> {}, fetched |-> {},
     failed |-> {}]

\* The run after the start commit of line 117, for an audience of
\* total_subreddits subreddits.
LoopCall(total_subreddits) ==
    [NoLoop EXCEPT !.pc = "progress", !.total_subreddits = total_subreddits,
                   !.i = 1, !.is_collecting = TRUE]

\* What ends the processing of a post: the next post of the for loop at
\* line 162, the next subreddit of the for loop at line 130, or the terminal
\* write after the last one.
NextPost(l) ==
    IF l.post_idx < l.total_posts
    THEN [l EXCEPT !.pc = "store", !.post_idx = l.post_idx + 1]
    ELSE IF l.i < l.total_subreddits
         THEN [l EXCEPT !.pc = "progress", !.i = l.i + 1, !.total_posts = 0,
                        !.post_idx = 0]
         ELSE [l EXCEPT !.pc = "complete", !.total_posts = 0, !.post_idx = 0]

\* Lines 131-133: the progress of the subreddit is committed.
LoopProgress ==
    /\ loop.pc = "progress"
    /\ loop' =
         IF loop.session_ok
         THEN [loop EXCEPT !.pc = "fetch",
                           !.collection_progress =
                              SubredditProgress(loop.i, loop.total_subreddits)]
         ELSE [loop EXCEPT !.pc = "except"]
    /\ UNCHANGED <<appVars, redditVars, commentVars, posts_table, themeVars>>

\* Lines 136-161: get_subreddit_posts returns total_posts posts, which it has
\* saved and committed on the session it shares with the run (reddit.py
\* 186-207); it raises when that session cannot be used.
LoopFetch ==
    /\ loop.pc = "fetch"
    /\ \E total_posts \in 0..MaxLoopPosts :
         IF total_posts > 0 /\ ~loop.session_ok
         THEN /\ loop' = [loop EXCEPT !.pc = "except"]
              /\ UNCHANGED posts_table
         ELSE /\ posts_table' =
                   posts_table \cup {<<loop.i, k>> : k \in 1..total_posts}
              /\ loop' =
                   IF total_posts = 0 THEN NextPost(loop)
                   ELSE [loop EXCEPT !.pc = "store",
                                     !.total_posts = total_posts,
                                     !.post_idx = 1]
    /\ UNCHANGED <<appVars, redditVars, commentVars, themeVars>>

\* A variant of the store step that goes on to the comments of the post
\* when its commit has raised.
LoopPostStoreThenComments ==
    /\ loop.pc = "store"
    /\ LET post == <<loop.i, loop.post_idx>>
       IN  \E ok \in BOOLEAN :
             /\ loop' = IF ok /\ loop.session_ok
                        THEN [loop EXCEPT !.pc = "comments",
                                          !.stored = @ \cup {post}]
                        ELSE [loop EXCEPT !.pc = "comments",
                                          !.session_ok = FALSE,
                                          !.failed = @ \cup {post}]
             /\ posts_table' = posts_table
    /\ UNCHANGED <<appVars, redditVars, commentVars, themeVars>>

\* Lines 163-183: the post is looked up, added or updated, and committed.
\* An error (the session cannot be used, or the commit raises) is caught at
\* line 218 and the loop continues with the next post.
LoopPostStore ==
    /\ loop.pc = "store"
    /\ LET post == <<loop.i, loop.post_idx>>
       IN  \E ok \in BOOLEAN :
             IF ok /\ loop.session_ok
             THEN /\ loop' = [loop EXCEPT !.pc = "comments",
                                          !.stored = @ \cup {post}]
                  /\ posts_table' = posts_table \cup {post}
             ELSE /\ loop' = NextPost([loop EXCEPT !.session_ok = FALSE,
                                                   !.failed = @ \cup {post}])
                  /\ UNCHANGED posts_table
    /\ UNCHANGED <<appVars, redditVars, commentVars, themeVars>>

\* Lines 185-209: collect_post_comments fetches the comments of the post from
\* Reddit and returns them, and they are added and committed; an error of
\* the collection, or of the commit of line 205, is caught at line 206 and
\* the loop continues with the next post.
LoopPostComments ==
    /\ loop.pc = "comments"
    /\ LET post == <<loop.i, loop.post_idx>>
           l == [loop EXCEPT !.fetched = @ \cup {post}]
       IN  \E outcome \in {"ok", "error", "commit_error"} :
             loop' =
               CASE outcome = "ok" -> [l EXCEPT !.pc = "analyze"]
                 [] outcome = "error" ->
                      NextPost([l EXCEPT !.failed = @ \cup {post}])
                 [] outcome = "commit_error" ->
                      NextPost([l EXCEPT !.session_ok = FALSE,
                                         !.failed = @ \cup {post}])
    /\ UNCHANGED <<appVars, redditVars, commentVars, posts_table, themeVars>>

\* Lines 211-220: the post is analysed and the progress of the post is
\* committed; an error is caught at line 218 and the loop continues.
LoopPostAnalyze ==
    /\ loop.pc = "analyze"
    /\ LET post == <<loop.i, loop.post_idx>>
       IN  \E ok \in BOOLEAN :
             loop' =
               IF ok
               THEN NextPost([loop EXCEPT
                                !.collection_progress =
                                   PostProgress(loop.post_idx, loop.total_posts,
                                                loop.total_subreddits)])
               ELSE NextPost([loop EXCEPT !.session_ok = FALSE,
                                          !.failed = @ \cup {post}])
    /\ UNCHANGED <<appVars, redditVars, commentVars, posts_table, themeVars>>

\* Lines 222-226: the terminal write and its commit, which raises when the
\* session cannot be used.
LoopComplete ==
    /\ loop.pc = "complete"
    /\ loop' =
         IF loop.session_ok
         THEN [loop EXCEPT !.pc = "returned", !.collection_progress = Done,
                           !.is_collecting = FALSE]
         ELSE [loop EXCEPT !.pc = "except"]
    /\ UNCHANGED <<appVars, redditVars, commentVars, posts_table, themeVars>>

\* Lines 232-238: the inner handler resets the state on the run's session
\* and re-raises; its commit raises when the session cannot be used.
LoopExcept ==
    /\ loop.pc = "except"
    /\ loop' =
         IF loop.session_ok
         THEN [loop EXCEPT !.pc = "recover", !.is_collecting = FALSE,
                           !.collection_progress = 0]
         ELSE [loop EXCEPT !.pc = "recover"]
    /\ UNCHANGED <<appVars, redditVars, commentVars, posts_table, themeVars>>

\* Lines 240-255: the outer handler resets the state on a session of its
\* own and re-raises.
LoopRecover ==
    /\ loop.pc = "recover"
    /\ loop' = [loop EXCEPT !.pc = "raised", !.is_collecting = FALSE,
                            !.collection_progress = 0]
    /\ UNCHANGED <<appVars, redditVars, commentVars, posts_table, themeVars>>

\* ---------------------------------------------------- engagement scores
\* The two score functions of RedditService compute with floats; the model
\* computes the same value exactly, as a fraction num / den of integers:
\* upvote_ratio is given in hundredths and every multiplier in tenths.

\* No call of a score function.
NoEngagement == [pc |-> "none"]

\* The attributes of a submission the post score reads.
Submissions ==
    [score : {0, 1, PostNormaliser, PostNormaliser * MaxScoreFactor},
     num_comments : {0, PostNormaliser * MaxScoreFactor},
     upvote_ratio : {0, Percent \div 2, Percent},
     distinguished : BOOLEAN, stickied : BOOLEAN,
     is_original_content : BOOLEAN]

\* The attributes of a comment the comment score reads, and the depth.
PrawComments ==
    [score : {0, 1, CommentNormaliser, CommentNormaliser * MaxScoreFactor},
     depth : 0..MaxCommentDepth,
     is_submitter : BOOLEAN, distinguished : BOOLEAN, all_awardings : BOOLEAN]

\* A variant of min_1 that returns the quotient as it is.
no_min(num, den) == num

\* min(1.0, num / den), as the numerator over den (lines 496 and 735).
min_1(num, den) == IF den < num THEN den ELSE num

\* _calculate_engagement_score (lines 480-496).
_calculate_engagement_score(submission) ==
    LET base_score == submission.score
                        + submission.num_comments * CommentWeight
        weighted_score == base_score * submission.upvote_ratio
        boosted == IF submission.distinguished \/ submission.stickied
                   THEN weighted_score * Boost
                   ELSE weighted_score * Tenths
        original == IF submission.is_original_content
                    THEN boosted * OriginalBoost
                    ELSE boosted * Tenths
        den == Percent * Tenths * Tenths * PostNormaliser
    IN  [num |-> min_1(original, den), den |-> den]

\* _calculate_comment_engagement (lines 719-735).
_calculate_comment_engagement(comment, depth) ==
    LET m1 == IF comment.is_submitter THEN SubmitterMultiplier ELSE Tenths
        m2 == IF comment.distinguished THEN DistinguishedMultiplier
              ELSE Tenths
        m3 == IF comment.all_awardings THEN AwardMultiplier ELSE Tenths
        product == comment.score * m1 * m2 * m3
        den == (depth + 1) * Tenths * Tenths * Tenths * CommentNormaliser
    IN  [num |-> min_1(product, den), den |-> den]

\* The call of line 143: the score of a fetched submission.
PostScore ==
    /\ engagement.pc = "post"
    /\ engagement' =
         [engagement EXCEPT !.pc = "returned",
            !.result = _calculate_engagement_score(engagement.input)]
    /\ UNCHANGED <<collectionVars, serviceVars, analyzer, post_analysis, theme_run,
                   cancellation_token, store>>

\* The call of line 604: the score of a fetched comment at its depth.
CommentScore ==
    /\ engagement.pc = "comment"
    /\ engagement' =
         [engagement EXCEPT !.pc = "returned",
            !.result = _calculate_comment_engagement(engagement.input,
                                                     engagement.input.depth)]
    /\ UNCHANGED <<collectionVars, serviceVars, analyzer, post_analysis, theme_run,
                   cancellation_token, store>>


\* --------------------------------------------- ThemeService._analyze_post
\* The tasks whose runs call the classifier, each on a session of its own:
\* the loop of main.py and the initial-data task of a created audience.
\* They meet on a post when their audiences share a subreddit: RedditPost
\* rows are per reddit_id, not per audience.
Analysts == {"scheduler", "initial"}
AnalysisPosts == 1..MaxAnalysisPosts

\* No call in progress.
NoAnalysis == [pc |-> "idle", post |-> 0, calls |-> 0]

\* Line 212 (and 815): a task calls _analyze_post on a stored post.
AnalyzeCall(t) ==
    /\ analyzer[t].pc \in {"idle", "raised"}
    /\ analyzer[t].calls < MaxAnalyses
    /\ \E post \in AnalysisPosts :
         analyzer' = [analyzer EXCEPT ![t] =
                        [pc |-> "check", post |-> post,
                         calls |-> analyzer[t].calls + 1]]
    /\ UNCHANGED <<collectionVars, serviceVars, engagement, post_analysis, theme_run,
                   cancellation_token, store>>

\* Lines 260-264: the select and scalar_one_or_none; a row found ends the
\* call, two rows raise MultipleResultsFound.
AnalyzeCheck(t) ==
    /\ analyzer[t].pc = "check"
    /\ analyzer' = [analyzer EXCEPT ![t].pc =
                      CASE post_analysis[analyzer[t].post] = 0 -> "store"
                        [] post_analysis[analyzer[t].post] = 1 -> "idle"
                        [] OTHER -> "raised"]
    /\ UNCHANGED <<collectionVars, serviceVars, engagement, post_analysis, theme_run,
                   cancellation_token, store>>

\* Lines 266-323: the analysis is computed without an await, added and
\* committed; the commit may raise.
AnalyzeStore(t) ==
    /\ analyzer[t].pc = "store"
    /\ \E ok \in BOOLEAN :
         IF ok
         THEN /\ post_analysis' =
                   [post_analysis EXCEPT ![analyzer[t].post] = @ + 1]
              /\ analyzer' = [analyzer EXCEPT ![t].pc = "idle"]
         ELSE /\ analyzer' = [analyzer EXCEPT ![t].pc = "raised"]
              /\ UNCHANGED post_analysis
    /\ UNCHANGED <<collectionVars, serviceVars, engagement, theme_run,
                   cancellation_token, store>>



\* -------------------------------------------- ThemeService.analyze_themes
\* Two categories of theme_categories stand for the ten: a metric category
\* whose criteria every post meets and a keyword category.
Categories == {"Top Content", "Advice Requests"}
MetricCategories == {"Top Content"}

\* What analyze_themes reads of a post for the keyword category: whether its
\* title or content holds a keyword, and whether a comment of it does.
CorpusPosts == [in_content : BOOLEAN, in_comments : BOOLEAN]

\* The posts _get_recent_posts may return, by position.
Corpora ==
    UNION {[1..n -> CorpusPosts] : n \in 0..MaxCorpusPosts}

\* keyword_matches of lines 364-371, in halves: a keyword of the post counts
\* 1, a keyword of a comment 0.5.
keyword_matches(post) ==
    (IF post.in_content THEN 2 ELSE 0) + (IF post.in_comments THEN 1 ELSE 0)

\* theme_groups of lines 348-376: the positions of the posts of a category.
theme_groups(posts, category) ==
    IF category \in MetricCategories
    THEN DOMAIN posts
    ELSE {i \in DOMAIN posts : keyword_matches(posts[i]) > 0}

\* A variant of valid_theme that asks for two posts.
valid_theme_of_two(group) == Cardinality(group) >= MinPostsPerTheme - 1

\* Line 381: "Require at least 3 posts per theme".
valid_theme(group) == Cardinality(group) >= MinPostsPerTheme

NoThemeRun ==
    [pc |-> "none", posts |-> <<>>, todo |-> {}, themes |-> {},
     theme_posts |-> {}]

\* A call of analyze_themes for an audience whose recent posts are posts.
ThemesCall(posts) == [NoThemeRun EXCEPT !.pc = "posts", !.posts = posts]

\* Lines 329-376: no post raises ValueError; otherwise the posts are grouped.
\* A category is in theme_groups only if a post was appended to its list.
ThemesGroup ==
    /\ theme_run.pc = "posts"
    /\ theme_run' =
         IF Len(theme_run.posts) = 0
         THEN [theme_run EXCEPT !.pc = "raised"]
         ELSE [theme_run EXCEPT
                 !.pc = "themes",
                 !.todo = {c \in Categories :
                             theme_groups(theme_run.posts, c) # {}}]
    /\ UNCHANGED <<collectionVars, serviceVars, engagement, analyzer, post_analysis,
                   cancellation_token, store>>

\* Lines 380-413, one category of theme_groups: a group of at least three
\* posts becomes a Theme (committed at 399) and its ten best posts become
\* ThemePost rows (committed at 411); either commit may raise (429-431).
ThemesTheme ==
    /\ theme_run.pc = "themes"
    /\ \E category \in theme_run.todo :
         LET group == theme_groups(theme_run.posts, category)
             rest == theme_run.todo \ {category}
         IN  IF ~valid_theme(group)
             THEN theme_run' = [theme_run EXCEPT !.todo = rest]
             ELSE \E outcome \in {"ok", "theme_error", "posts_error"},
                     top \in SUBSET group :
                    /\ Cardinality(top) =
                         IF Cardinality(group) <= ThemePostLimit
                         THEN Cardinality(group) ELSE ThemePostLimit
                    /\ theme_run' =
                         CASE outcome = "ok" ->
                                [theme_run EXCEPT
                                   !.todo = rest,
                                   !.themes = @ \cup {category},
                                   !.theme_posts = @ \cup
                                      {<<category, i>> : i \in top}]
                           [] outcome = "posts_error" ->
                                [theme_run EXCEPT
                                   !.pc = "raised",
                                   !.themes = @ \cup {category}]
                           [] OTHER ->
                                [theme_run EXCEPT !.pc = "raised"]
    /\ UNCHANGED <<collectionVars, serviceVars, engagement, analyzer, post_analysis,
                   cancellation_token, store>>

\* Lines 415-427: no theme raises ValueError; otherwise the themes are
\* returned.
ThemesReturn ==
    /\ theme_run.pc = "themes"
    /\ theme_run.todo = {}
    /\ theme_run' = [theme_run EXCEPT
                       !.pc = IF theme_run.themes = {} THEN "raised"
                              ELSE "returned"]
    /\ UNCHANGED <<collectionVars, serviceVars, engagement, analyzer, post_analysis,
                   cancellation_token, store>>


\* ------------------------------------------------------ CancellationToken
\* CancellationToken.__init__ (core/cancellation.py 8-11).
NoToken == [is_cancelled |-> FALSE]

\* CancellationToken.cancel (lines 18-27), called by whoever holds the token
\* a caller made for a collection.  collect_posts_for_audience has no
\* parameter for a token and reads none: no action of the run mentions it.
TokenCancel ==
    /\ ~cancellation_token.is_cancelled
    /\ cancellation_token' = [cancellation_token EXCEPT !.is_cancelled = TRUE]
    /\ UNCHANGED <<collectionVars, serviceVars, engagement, analyzer, post_analysis,
                   theme_run, store>>


\* ------------------------------------ routers.audiences and routers.themes
\* The tables the update, delete, themes and refresh routes read and write.
\* A theme is named by its audience (the model keeps one category), a post by
\* its subreddit and a number, a ThemePost by its theme and post, a
\* ThemeQuestion by its theme.
StoreAudiences == {1, 2}
StoreSubreddits == {"python", "rust"}
StorePosts == StoreSubreddits \X (1..MaxStorePosts)

\* A subreddit name as a request spells it: <<name, TRUE>> is the lowercase
\* spelling the store holds, <<name, FALSE>> the same name with capitals.
NameInputs == StoreSubreddits \X BOOLEAN
lower(name_input) == name_input[1]

\* AudienceUpdate.subreddit_names: a list of names, or None.
NoNames == {<<"", FALSE>>}
UpdateInputs == (SUBSET NameInputs) \cup {NoNames}

NoResponse ==
    [op |-> "none", audience_id |-> 0, status |-> 0,
     removed_subreddit_names |-> {}, post_ids |-> {}, theme_ids |-> {}]

NoStore ==
    [audiences |-> {}, collecting |-> {}, memberships |-> {}, posts |-> {},
     themes |-> {}, theme_posts |-> {}, theme_questions |-> {},
     requests |-> 0, last |-> NoResponse]

\* The subreddits of an audience, the posts of a set of subreddits.
SubredditsOf(st, audience_id) ==
    {name \in StoreSubreddits : <<audience_id, name>> \in st.memberships}
PostsOf(st, names) == {post \in st.posts : post[1] \in names}

\* A variant of the check that finds no other audience.
no_other_audience(st, audience_id, subreddit_name) == FALSE

\* "Check if subreddit is used by other audiences" (audiences.py 280-287,
\* 444-451).
other_audience_uses(st, audience_id, subreddit_name) ==
    \E other \in StoreAudiences :
        other # audience_id /\ <<other, subreddit_name>> \in st.memberships

\* Lines 277-306 and 442-470: for each of the names, the posts of a
\* subreddit no other audience uses are deleted, with the ThemePost rows
\* that reference them.
DeletePosts(st, audience_id, names) ==
    LET post_ids == {post \in st.posts :
                       /\ post[1] \in names
                       /\ ~other_audience_uses(st, audience_id, post[1])}
    IN  [st EXCEPT !.posts = @ \ post_ids,
                   !.theme_posts = {tp \in @ : tp[2] \notin post_ids}]

\* A variant of DeleteThemes that leaves the themes in place.
KeepThemes(st, audience_id) == st

\* Lines 309-329 and 420-440: the ThemeQuestion, ThemePost and Theme rows of
\* the audience's themes are deleted.
DeleteThemes(st, audience_id) ==
    [st EXCEPT !.themes = @ \ {audience_id},
               !.theme_posts = {tp \in @ : tp[1] # audience_id},
               !.theme_questions = @ \ {audience_id}]

\* The response of a handler that found the store as before and leaves it as
\* st, with the names it took for removed and the posts and themes it deleted.
Respond(before, st, op, audience_id, status, removed) ==
    [st EXCEPT !.requests = @ + 1,
               !.last = [op |-> op, audience_id |-> audience_id,
                         status |-> status,
                         removed_subreddit_names |-> removed,
                         post_ids |-> before.posts \ st.posts,
                         theme_ids |-> before.themes \ st.themes]]

\* delete_audience (audiences.py 399-487): one transaction; any exception,
\* the 404 of line 416 included, rolls it back and becomes a 500.
DeleteAudience ==
    /\ store.requests < MaxRequests
    /\ \E audience_id \in StoreAudiences, ok \in BOOLEAN :
         LET names == SubredditsOf(store, audience_id)
             themes_gone == DeleteThemes(store, audience_id)
             posts_gone == DeletePosts(themes_gone, audience_id, names)
             deleted ==
               [posts_gone EXCEPT
                  !.memberships = {m \in @ : m[1] # audience_id},
                  !.audiences = @ \ {audience_id},
                  !.collecting = @ \ {audience_id}]
         IN  store' =
               IF audience_id \in store.audiences /\ ok
               THEN Respond(store, deleted, "delete", audience_id, Ok, names)
               ELSE Respond(store, store, "delete", audience_id, ServerError, {})
    /\ UNCHANGED <<collectionVars, serviceVars, engagement, analyzer, post_analysis,
                   theme_run, cancellation_token>>

\* update_audience (audiences.py 236-397).  The names removed are found by
\* comparing the stored names with the names as the request spells them
\* (266-273); their posts and the audience's themes are deleted and
\* committed (276-332), or rolled back on an error (333-338).  The
\* memberships are then replaced by the lowercased names and committed
\* (340-375); two spellings of one name make that commit fail.
UpdateAudience ==
    /\ store.requests < MaxRequests
    /\ \E audience_id \in StoreAudiences, subreddit_names \in UpdateInputs,
          outcome \in {"ok", "deletion_error", "update_error"} :
         LET current == SubredditsOf(store, audience_id)
             removed == IF subreddit_names = NoNames THEN {}
                        ELSE {name \in current :
                                <<name, TRUE>> \notin subreddit_names}
             cleaned == IF removed = {} THEN store
                        ELSE DeleteThemes(
                               DeletePosts(store, audience_id, removed),
                               audience_id)
             twice == \E name \in StoreSubreddits :
                        {<<name, TRUE>>, <<name, FALSE>>} \subseteq subreddit_names
             replaced ==
               IF subreddit_names = NoNames THEN cleaned
               ELSE [cleaned EXCEPT
                       !.memberships =
                          {m \in @ : m[1] # audience_id} \cup
                          {<<audience_id, lower(n)>> : n \in subreddit_names}]
         IN  store' =
               IF audience_id \notin store.audiences
               THEN Respond(store, store, "update", audience_id, NotFound, {})
               ELSE IF outcome = "deletion_error" /\ removed # {}
               THEN Respond(store, store, "update", audience_id, ServerError, {})
               ELSE IF outcome = "update_error"
                       \/ (subreddit_names # NoNames /\ twice)
               THEN Respond(store, cleaned, "update", audience_id, ServerError, {})
               ELSE Respond(store, replaced, "update", audience_id, Ok, removed)
    /\ UNCHANGED <<collectionVars, serviceVars, engagement, analyzer, post_analysis,
                   theme_run, cancellation_token>>

\* A variant of is_collecting that never sees a collection.
never_collecting(st, audience_id) == FALSE

\* "if audience.is_collecting" (routers/themes.py 31 and 67).
is_collecting(st, audience_id) == audience_id \in st.collecting

\* get_audience_themes (routers/themes.py 18-52).
GetAudienceThemes ==
    /\ store.requests < MaxRequests
    /\ \E audience_id \in StoreAudiences :
         store' = Respond(store, store, "themes", audience_id,
                    IF audience_id \notin store.audiences THEN NotFound
                    ELSE IF audience_id \in store.collecting THEN Accepted
                    ELSE IF audience_id \notin store.themes THEN NotFound
                    ELSE Ok, {})
    /\ UNCHANGED <<collectionVars, serviceVars, engagement, analyzer, post_analysis,
                   theme_run, cancellation_token>>

\* request_theme_refresh (routers/themes.py 54-100): the old themes and
\* their ThemePost rows are deleted and committed (the ThemeQuestion rows go
\* with their theme, ON DELETE CASCADE); analyze_themes then makes a theme
\* of the audience's posts if there are at least three, and a ValueError of
\* it is a 404.
RequestThemeRefresh ==
    /\ store.requests < MaxRequests
    /\ \E audience_id \in StoreAudiences, ok \in BOOLEAN :
         LET cleared == DeleteThemes(store, audience_id)
             posts == PostsOf(store, SubredditsOf(store, audience_id))
             created ==
               [cleared EXCEPT
                  !.themes = @ \cup {audience_id},
                  !.theme_posts = @ \cup {<<audience_id, post>> : post \in posts}]
         IN  store' =
               IF audience_id \notin store.audiences
               THEN Respond(store, store, "refresh", audience_id, NotFound, {})
               ELSE IF is_collecting(store, audience_id)
               THEN Respond(store, store, "refresh", audience_id, Accepted, {})
               ELSE IF ok /\ Cardinality(posts) >= MinPostsPerTheme
               THEN Respond(store, created, "refresh", audience_id, Ok, {})
               ELSE Respond(store, cleared, "refresh", audience_id, NotFound, {})
    /\ UNCHANGED <<collectionVars, serviceVars, engagement, analyzer, post_analysis,
                   theme_run, cancellation_token>>

\* The stores the routes may find: two audiences, any memberships, posts for
\* any of the subreddits, themes for any of the audiences with or without
\* ThemePost rows and questions, either audience collecting or not.
Stores ==
    {[NoStore EXCEPT
        !.audiences = StoreAudiences,
        !.collecting = collecting,
        !.memberships = memberships,
        !.posts = {post \in StorePosts : post[1] \in with_posts},
        !.themes = themes,
        !.theme_posts =
           IF linked
           THEN {tp \in themes \X StorePosts : tp[2][1] \in with_posts}
           ELSE {},
        !.theme_questions = IF asked THEN themes ELSE {}] :
      collecting \in SUBSET StoreAudiences,
      memberships \in SUBSET (StoreAudiences \X StoreSubreddits),
      with_posts \in SUBSET StoreSubreddits,
      themes \in SUBSET StoreAudiences,
      linked \in BOOLEAN, asked \in BOOLEAN}


\* ------------------------------------- ThemeService._analyze_post: the scores
\* No classification is under way.
NoClassification == [pc |-> "none"]

\* What the classifier reads of a post: its score and comment count, the
\* length of its lowercased title and content, and how many keywords of the
\* "Advice Requests" and "Solution Requests" lists occur in that text.
ClassifiedPosts ==
    [score : ((0 - MaxDownvotes)..1) \cup {HotScore + 1, (HotScore + 1) * 2},
     num_comments : {0, HotComments + 1, (HotScore + 1) * 2},
     content_length : {0, MaxLengthBoost, LengthNormaliser},
     advice : 0..MaxMatched,
     solution : 0..MaxMatched]

\* Lines 270-289: the categories whose criteria is true of the post or of
\* which a keyword occurs in its text.
matching_themes(post) ==
    {"Top Content"}
      \cup (IF post.score > HotScore /\ post.num_comments > HotComments
            THEN {"Hot Discussions"} ELSE {})
      \cup (IF post.advice > 0 THEN {"Advice Requests"} ELSE {})
      \cup (IF post.solution > 0 THEN {"Solution Requests"} ELSE {})

\* max(post.score, 1) of line 305.
max_1(score) == IF score < 1 THEN 1 ELSE score

\* Lines 298-313: the score recorded for a matching category, as a fraction:
\* the sort key or the share of matched keywords, the adjustment of the
\* category, and min(base_score, 1.0).
theme_score(post, category) ==
    LET smaller(a, b) == IF a < b THEN a ELSE b
        fraction ==
          CASE category = "Top Content" ->
                 [num |-> post.score, den |-> 1]
            [] category = "Hot Discussions" ->
                 [num |-> (post.score * ScoreShare
                             + post.num_comments * CommentShare)
                          * (max_1(post.score)
                               + smaller(post.num_comments, max_1(post.score))),
                  den |-> Tenths * max_1(post.score)]
            [] category = "Advice Requests" ->
                 [num |-> post.advice
                          * (LengthNormaliser
                               + smaller(post.content_length, MaxLengthBoost)),
                  den |-> AdviceKeywords * LengthNormaliser]
            [] OTHER ->
                 [num |-> post.solution, den |-> SolutionKeywords]
    IN  [num |-> min_1(fraction.num, fraction.den), den |-> fraction.den]

\* Lines 266-321: the PostAnalysis built for a post that has none.
AnalyzePostScores ==
    /\ classification.pc = "call"
    /\ classification' =
         [classification EXCEPT
            !.pc = "stored",
            !.matching_themes = matching_themes(classification.post),
            !.theme_scores =
               [category \in matching_themes(classification.post) |->
                  theme_score(classification.post, category)]]
    /\ UNCHANGED <<collectionVars, engagement, analyzer, post_analysis,
                   theme_run, cancellation_token, store, comment_update,
                   themes_table>>


\* ------------------------------------------ comment_service.update_comments
NoCommentUpdate == [pc |-> "none"]

\* The names bound in the module comment_service when one of its functions
\* runs: its imports (lines 1-10) and its own definitions.
comment_service_names ==
    {"datetime", "timezone", "Dict", "List", "Optional", "Tuple", "select",
     "AsyncSession", "RedditClient", "settings", "Comment", "RedditPost",
     "CommentCollectionConfig", "process_comment_tree",
     "collect_comments_for_post", "update_comments"}

\* The stored comments of the post of the call.
StoredComments == 1..MaxStoredComments

\* (now - comment.last_updated).total_seconds() of a stored comment: whole
\* hours, and a second less or more.
Ages ==
    {hours * SecondsPerHour + over : hours \in 0..MaxAgeHours, over \in {0, 1}}
      \cup {hours * SecondsPerHour - 1 : hours \in 1..MaxAgeHours}

\* The call update_comments(post_id, session, reddit_client, min_age_hours)
\* on a post whose comments have the given ages.
UpdateCommentsCall(age, min_age_hours) ==
    [pc |-> "select", age |-> age, min_age_hours |-> min_age_hours,
     changed |-> {}, updated_comments |-> {}, error |-> "none"]

\* Line 193: "Skip if comment was recently updated".
recently_updated(age, min_age_hours) == age < min_age_hours * SecondsPerHour

\* Lines 183-209.  Building the statement of line 183 looks the name Post
\* up in the module, where it is not bound: NameError.  Were it bound, the
\* loop of lines 190-204 would overwrite every comment that is not recent
\* and for which get_comment returns data, and return those comments.
UpdateComments ==
    /\ comment_update.pc = "select"
    /\ \E available \in SUBSET StoredComments :
         LET updated == {comment \in available :
                           ~recently_updated(comment_update.age[comment],
                                             comment_update.min_age_hours)}
         IN  comment_update' =
               IF "Post" \in comment_service_names
               THEN [comment_update EXCEPT !.pc = "returned",
                                           !.changed = updated,
                                           !.updated_comments = updated]
               ELSE [comment_update EXCEPT !.pc = "raised",
                                           !.error = "NameError"]
    /\ UNCHANGED <<collectionVars, engagement, analyzer, post_analysis,
                   theme_run, cancellation_token, store, classification,
                   themes_table>>

\* ------------------------------------------------ the themes of an audience
\* The HTTP clients whose refresh requests may overlap.
Clients == {"first", "second"}

\* The ThemeQuestion rows of the audience's themes, by id.
Questions == 1..MaxQuestions

\* A client with no request under way.
NoClient == [pc |-> "idle", calls |-> 0, old_theme_ids |-> {}, asked |-> {}]

\* The theme and themequestion rows of one audience that exists: none; the
\* categories for which its posts give a theme (valid); whether its
\* collect_initial_data task is still to run (initial) and its is_collecting
\* flag; and the refresh request of each client.  The field asked of a
\* request is kept for the properties only: the questions that were attached
\* to the themes the request selected.
NoThemesTable ==
    [themes |-> {}, questions |-> {}, next_id |-> 1, valid |-> {},
     initial |-> FALSE, is_collecting |-> FALSE,
     client |-> [c \in Clients |-> NoClient]]

\* The ids of a set of theme rows.
theme_ids(themes) == {theme.id : theme \in themes}

\* The place of a category among the valid ones, in the order of the
\* theme_categories dictionary.
rank(category, valid) ==
    IF category = "Advice Requests" /\ "Top Content" \in valid THEN 1 ELSE 0

\* analyze_themes lines 378-409: one new Theme row, with the next id of the
\* table, for every category that has at least 3 posts; no row is looked up
\* or deleted.
valid_themes(valid, next_id) ==
    {[id |-> next_id + rank(category, valid), category |-> category] :
       category \in valid}

\* collect_initial_data (routers/audiences.py 52-66) for an audience that
\* was just created with is_collecting True: the collection of line 56
\* finds the flag set and returns, line 57 calls analyze_themes, which adds
\* its themes or raises ValueError, and the finally block clears the flag.
GenerateThemes ==
    /\ themes_table.initial
    /\ themes_table' =
         [themes_table EXCEPT
            !.themes = @ \cup valid_themes(themes_table.valid,
                                           themes_table.next_id),
            !.next_id = @ + Cardinality(themes_table.valid),
            !.initial = FALSE,
            !.is_collecting = FALSE]
    /\ UNCHANGED <<collectionVars, engagement, analyzer, post_analysis,
                   theme_run, cancellation_token, store, classification,
                   comment_update>>

\* request_theme_refresh lines 60-71: the audience exists; 202 while it is
\* collecting.
RefreshRequest(c) ==
    /\ themes_table.client[c].pc \in {"idle", "returned", "accepted", "not_found"}
    /\ themes_table.client[c].calls < MaxThemeCalls
    /\ themes_table' =
         [themes_table EXCEPT !.client[c] =
            [NoClient EXCEPT
               !.pc = IF themes_table.is_collecting THEN "accepted"
                      ELSE "select",
               !.calls = themes_table.client[c].calls + 1]]
    /\ UNCHANGED <<collectionVars, engagement, analyzer, post_analysis,
                   theme_run, cancellation_token, store, classification,
                   comment_update>>

\* Lines 73-77: "Get old theme IDs".
RefreshSelect(c) ==
    /\ themes_table.client[c].pc = "select"
    /\ LET old == theme_ids(themes_table.themes) IN
       themes_table' =
         [themes_table EXCEPT !.client[c] =
            [@ EXCEPT !.pc = IF old = {} THEN "analyze" ELSE "delete",
                      !.old_theme_ids = old,
                      !.asked = {question.id :
                                   question \in themes_table.questions}]]
    /\ UNCHANGED <<collectionVars, engagement, analyzer, post_analysis,
                   theme_run, cancellation_token, store, classification,
                   comment_update>>

\* Lines 79-83: the ThemePost and Theme rows of the old ids are deleted and
\* the deletion committed; the ThemeQuestion rows of a deleted theme go with
\* it (theme_question.py line 9: ondelete="CASCADE").
RefreshDelete(c) ==
    /\ themes_table.client[c].pc = "delete"
    /\ LET old == themes_table.client[c].old_theme_ids IN
       themes_table' =
         [themes_table EXCEPT
            !.themes = {theme \in @ : theme.id \notin old},
            !.questions = {question \in @ : question.theme_id \notin old},
            !.client[c].pc = "analyze"]
    /\ UNCHANGED <<collectionVars, engagement, analyzer, post_analysis,
                   theme_run, cancellation_token, store, classification,
                   comment_update>>

\* Lines 85-94: analyze_themes adds its themes and the handler returns
\* them, or raises ValueError, answered 404.
RefreshAnalyze(c) ==
    /\ themes_table.client[c].pc = "analyze"
    /\ themes_table' =
         IF themes_table.valid = {}
         THEN [themes_table EXCEPT !.client[c].pc = "not_found"]
         ELSE [themes_table EXCEPT
                 !.themes = @ \cup valid_themes(themes_table.valid,
                                                themes_table.next_id),
                 !.next_id = @ + Cardinality(themes_table.valid),
                 !.client[c].pc = "returned"]
    /\ UNCHANGED <<collectionVars, engagement, analyzer, post_analysis,
                   theme_run, cancellation_token, store, classification,
                   comment_update>>

\* The tables of an audience when the requests start: a new audience whose
\* initial task is still to run, or an audience with one theme for each of
\* some categories and questions attached to them.
ThemeTables ==
    {[NoThemesTable EXCEPT !.valid = valid, !.initial = TRUE,
                           !.is_collecting = TRUE] :
       valid \in SUBSET Categories}
    \cup
    UNION {
      {[NoThemesTable EXCEPT
          !.valid = valid,
          !.themes = valid_themes(had, 1),
          !.next_id = 1 + Cardinality(had),
          !.questions = {[id |-> question, theme_id |-> attached[question]] :
                           question \in asked}] :
         valid \in SUBSET Categories,
         attached \in [Questions -> theme_ids(valid_themes(had, 1))],
         asked \in SUBSET Questions} :
      had \in (SUBSET Categories) \ {{}}}


\* ---------------------------------------------------------- specifications
StoredAtStart ==
    [a \in Audiences |-> IF a \in StoredAudiences
                         THEN Audience(TRUE, FALSE, 0, NoTime, MaxSubreddits)
                         ELSE Audience(FALSE, FALSE, 0, NoTime, 0)]

\* The application after startup (lifespan, lines 106-110).
AppInit ==
    /\ audiences = StoredAtStart
    /\ now = 0
    /\ should_continue_background_tasks = TRUE
    /\ sched = [pc |-> "while"] @@ NoCycle
    /\ run = [t \in Tasks |-> NoRun]
    /\ initial_task = [pc |-> "none", audience_id |-> 0, exc |-> "none"]
    /\ caller = [pc |-> "idle", calls |-> 0]

\* The parts of the model that a specification does not use are idle.
CollectionIdle ==
    /\ AppInit
    /\ request = NoRequest
    /\ batch = NoBatch
    /\ collect = NoCollect
    /\ comments_table = <<>>
    /\ loop = NoLoop
    /\ posts_table = {}

EngagementIdle == engagement = NoEngagement
AnalysisIdle ==
    /\ analyzer = [t \in Analysts |-> NoAnalysis]
    /\ post_analysis = [p \in AnalysisPosts |-> 0]
ThemeRunIdle == theme_run = NoThemeRun
TokenIdle == cancellation_token = NoToken
StoreIdle == store = NoStore
ClassificationIdle == classification = NoClassification
CommentUpdateIdle == comment_update = NoCommentUpdate
ThemesTableIdle == themes_table = NoThemesTable
ServiceIdle == ClassificationIdle /\ CommentUpdateIdle /\ ThemesTableIdle

ThemesIdle ==
    /\ EngagementIdle
    /\ AnalysisIdle
    /\ ThemeRunIdle
    /\ TokenIdle
    /\ StoreIdle
    /\ ServiceIdle

Init ==
    /\ AppInit
    /\ request = NoRequest
    /\ batch = NoBatch
    /\ collect = NoCollect
    /\ comments_table = <<>>
    /\ loop = NoLoop
    /\ posts_table = {}
    /\ ThemesIdle

\* The application as main.py and the routers wire it: the loop, the
\* initial-data task of a created audience, shutdown, crash and restart.
\* Line 230 (RunThemes) is not among its steps: the only call in initial mode
\* is made by InitialFlag.
Next ==
    \/ SchedWhile
    \/ SchedSelect
    \/ SchedFor
    \/ SchedResume
    \/ SchedWake
    \/ Shutdown
    \/ Tick
    \/ Crash
    \/ Restart
    \/ CreateAudience
    \/ InitialGet
    \/ InitialFlag
    \/ InitialResume
    \/ InitialThemes
    \/ InitialFinally
    \/ InitialExcept
    \/ \E t \in Tasks :
         \/ RunLoad(t)
         \/ RunStart(t)
         \/ RunSubreddits(t)
         \/ RunProgress(t)
         \/ RunFetch(t)
         \/ RunFetchFail(t)
         \/ RunPost(t)
         \/ RunComplete(t)
         \/ RunCommitFail(t)
         \/ RunExcept(t)
         \/ RunRecover(t)
         \/ RunCancel(t)

Spec == Init /\ [][Next]_vars

\* The service under concurrent callers: one cycle of the loop together with
\* refresh_themes or a direct call.
NextService ==
    \/ Tick
    \/ SchedWhile
    \/ SchedSelect
    \/ SchedFor
    \/ SchedResume
    \/ RefreshCall
    \/ RefreshResume
    \/ DirectCall
    \/ DirectResume
    \/ \E t \in Tasks :
         \/ RunLoad(t)
         \/ RunStart(t)
         \/ RunSubreddits(t)
         \/ RunProgress(t)
         \/ RunFetch(t)
         \/ RunFetchFail(t)
         \/ RunPost(t)
         \/ RunComplete(t)
         \/ RunThemes(t)
         \/ RunCommitFail(t)
         \/ RunExcept(t)
         \/ RunRecover(t)
         \/ RunCancel(t)

SpecService == Init /\ [][NextService]_vars

\* The Reddit client on its own: one _batch_process call over up to
\* MaxItems items, each item processed through _rate_limited_request.
ClientInit ==
    /\ AppInit
    /\ request = NoRequest
    /\ \E items \in 0..MaxItems, batch_size \in 0..MaxBatchSize :
         batch = BatchCall(items, batch_size)
    /\ collect = NoCollect
    /\ comments_table = <<>>
    /\ loop = NoLoop
    /\ posts_table = {}
    /\ ThemesIdle

NextClient ==
    \/ BatchFor
    \/ BatchItem
    \/ BatchResume
    \/ BatchDelay
    \/ RequestDelaySleep
    \/ RequestAwait
    \/ RequestBackoff

SpecClient == ClientInit /\ [][NextClient]_vars

\* Comment collection on its own: one post whose comments, stored comments
\* and arguments are drawn from the bounded sets above, collected by
\* RedditService.collect_post_comments or by comment_service.
CommentsInit ==
    /\ AppInit
    /\ request = NoRequest
    /\ batch = NoBatch
    /\ \E parent_id \in Forests, data \in [CommentIds -> RawComments],
          config \in Configs, existing \in SUBSET CommentIds :
         /\ Cardinality(existing) <= MaxExisting
         /\ collect = CollectCall([parent_id |-> parent_id, data |-> data],
                                  config, existing)
         /\ comments_table =
              ExistingRows([parent_id |-> parent_id, data |-> data], existing)
    /\ loop = NoLoop
    /\ posts_table = {}
    /\ ThemesIdle

NextComments ==
    \/ CollectTree
    \/ CollectSave
    \/ CollectParents
    \/ CollectReturn
    \/ ServiceTree
    \/ ServiceSave

SpecComments == CommentsInit /\ [][NextComments]_vars

\* The post loop on its own: one run of an audience of up to MaxSubreddits
\* subreddits, each returning up to MaxLoopPosts posts.
PostsInit ==
    /\ AppInit
    /\ request = NoRequest
    /\ batch = NoBatch
    /\ collect = NoCollect
    /\ comments_table = <<>>
    /\ \E total_subreddits \in 1..MaxSubreddits :
         loop = LoopCall(total_subreddits)
    /\ posts_table = {}
    /\ ThemesIdle

NextPosts ==
    \/ LoopProgress
    \/ LoopFetch
    \/ LoopPostStore
    \/ LoopPostComments
    \/ LoopPostAnalyze
    \/ LoopComplete
    \/ LoopExcept
    \/ LoopRecover

SpecPosts == PostsInit /\ [][NextPosts]_vars

\* What the asyncio event loop guarantees: a task that can take a step takes
\* one; the clock advances; a process that has ended is started again.
SchedStep == SchedWhile \/ SchedSelect \/ SchedFor \/ SchedResume \/ SchedWake

InitialStep ==
    InitialGet \/ InitialFlag \/ InitialResume \/ InitialThemes
      \/ InitialFinally \/ InitialExcept

RunProgram(t) ==
    RunLoad(t) \/ RunStart(t) \/ RunSubreddits(t) \/ RunProgress(t)
      \/ RunFetch(t) \/ RunPost(t) \/ RunComplete(t) \/ RunExcept(t)
      \/ RunRecover(t)

FairSpec ==
    /\ Init /\ [][Next]_vars
    /\ WF_vars(SchedStep)
    /\ WF_vars(InitialStep)
    /\ \A t \in Tasks : WF_vars(RunProgram(t))
    /\ WF_vars(Tick)
    /\ WF_vars(Restart)

\* The score functions, each applied to one input of the bounded sets.
EngagementInit ==
    /\ AppInit
    /\ request = NoRequest
    /\ batch = NoBatch
    /\ collect = NoCollect
    /\ comments_table = <<>>
    /\ loop = NoLoop
    /\ posts_table = {}
    /\ AnalysisIdle /\ ThemeRunIdle /\ TokenIdle /\ StoreIdle
    /\ ServiceIdle
    /\ \/ \E submission \in Submissions :
            engagement = [pc |-> "post", fn |-> "post", input |-> submission,
                          result |-> [num |-> 0, den |-> 1]]
       \/ \E comment \in PrawComments :
            engagement = [pc |-> "comment", fn |-> "comment",
                          input |-> comment,
                          result |-> [num |-> 0, den |-> 1]]

NextEngagement ==
    \/ PostScore
    \/ CommentScore

SpecEngagement == EngagementInit /\ [][NextEngagement]_vars


\* The classifier, called by the two tasks on the posts of the store.
AnalysisInit ==
    /\ CollectionIdle
    /\ EngagementIdle /\ AnalysisIdle /\ ThemeRunIdle /\ TokenIdle /\ StoreIdle
    /\ ServiceIdle

NextAnalysis ==
    \E t \in Analysts :
        \/ AnalyzeCall(t)
        \/ AnalyzeCheck(t)
        \/ AnalyzeStore(t)

SpecAnalysis == AnalysisInit /\ [][NextAnalysis]_vars


\* Theme generation over every corpus of the bounded sets.
ThemeRunInit ==
    /\ CollectionIdle
    /\ EngagementIdle /\ AnalysisIdle /\ TokenIdle /\ StoreIdle
    /\ ServiceIdle
    /\ \E posts \in Corpora : theme_run = ThemesCall(posts)

NextThemeRun ==
    \/ ThemesGroup
    \/ ThemesTheme
    \/ ThemesReturn

SpecThemeRun == ThemeRunInit /\ [][NextThemeRun]_vars


\* A collection run whose caller holds a cancellation token, cancelled
\* before the call or at any point of the run.
CancelInit ==
    /\ AppInit
    /\ request = NoRequest
    /\ batch = NoBatch
    /\ collect = NoCollect
    /\ comments_table = <<>>
    /\ \E total_subreddits \in 1..MaxSubreddits :
         loop = LoopCall(total_subreddits)
    /\ posts_table = {}
    /\ EngagementIdle /\ AnalysisIdle /\ ThemeRunIdle /\ StoreIdle
    /\ ServiceIdle
    /\ \E is_cancelled \in BOOLEAN :
         cancellation_token = [NoToken EXCEPT !.is_cancelled = is_cancelled]

NextCancel ==
    \/ LoopProgress
    \/ LoopFetch
    \/ LoopPostStore
    \/ LoopPostComments
    \/ LoopPostAnalyze
    \/ LoopComplete
    \/ LoopExcept
    \/ LoopRecover
    \/ TokenCancel

SpecCancel == CancelInit /\ [][NextCancel]_vars


\* The audience and theme routes on every store of the bounded sets.
StoreInit ==
    /\ CollectionIdle
    /\ EngagementIdle /\ AnalysisIdle /\ ThemeRunIdle /\ TokenIdle
    /\ ServiceIdle
    /\ store \in Stores

NextStore ==
    \/ DeleteAudience
    \/ UpdateAudience
    \/ GetAudienceThemes
    \/ RequestThemeRefresh

SpecStore == StoreInit /\ [][NextStore]_vars


\* One direct call of collect_posts_for_audience running alone: no other
\* invocation and no scheduler touches the audiences while it runs.
NextDirect ==
    \/ Tick
    \/ DirectCall
    \/ DirectResume
    \/ RunLoad("caller")
    \/ RunStart("caller")
    \/ RunSubreddits("caller")
    \/ RunProgress("caller")
    \/ RunFetch("caller")
    \/ RunFetchFail("caller")
    \/ RunPost("caller")
    \/ RunComplete("caller")
    \/ RunThemes("caller")
    \/ RunCommitFail("caller")
    \/ RunExcept("caller")
    \/ RunRecover("caller")
    \/ RunCancel("caller")

SpecDirect == Init /\ [][NextDirect]_vars


\* The scores of _analyze_post on their own: one call per post of
\* ClassifiedPosts.
ClassificationInit ==
    /\ CollectionIdle
    /\ EngagementIdle /\ AnalysisIdle /\ ThemeRunIdle /\ TokenIdle /\ StoreIdle
    /\ CommentUpdateIdle /\ ThemesTableIdle
    /\ \E post \in ClassifiedPosts :
         classification = [pc |-> "call", post |-> post,
                           matching_themes |-> {},
                           theme_scores |-> <<>>]

NextClassification == AnalyzePostScores

SpecClassification == ClassificationInit /\ [][NextClassification]_vars


\* One call of comment_service.update_comments on a post with stored
\* comments of every age of Ages.
CommentUpdateInit ==
    /\ CollectionIdle
    /\ EngagementIdle /\ AnalysisIdle /\ ThemeRunIdle /\ TokenIdle /\ StoreIdle
    /\ ClassificationIdle /\ ThemesTableIdle
    /\ \E age \in [StoredComments -> Ages], min_age_hours \in 0..MaxMinAgeHours :
         comment_update = UpdateCommentsCall(age, min_age_hours)

NextCommentUpdate == UpdateComments

SpecCommentUpdate == CommentUpdateInit /\ [][NextCommentUpdate]_vars


\* The theme tables of one audience under its initial task and the refresh
\* requests of two clients.
ThemesTableInit ==
    /\ CollectionIdle
    /\ EngagementIdle /\ AnalysisIdle /\ ThemeRunIdle /\ TokenIdle /\ StoreIdle
    /\ ClassificationIdle /\ CommentUpdateIdle
    /\ themes_table \in ThemeTables

NextThemesTable ==
    \/ GenerateThemes
    \/ \E c \in Clients :
         \/ RefreshRequest(c)
         \/ RefreshSelect(c)
         \/ RefreshDelete(c)
         \/ RefreshAnalyze(c)

SpecThemesTable == ThemesTableInit /\ [][NextThemesTable]_vars


\* ------------------------------------------------------------------ claims
\* A started invocation of task t ends in this step.
RunEnds(t) ==
    /\ run[t].started
    /\ run[t].pc \notin Ended
    /\ run'[t].pc \in Ended

\* C1: every run that has started leaves its audience with is_collecting
\* false when it ends, whether it ends by success, by an error or by the
\* cancellation of its task.
C1_EndedRunNotCollecting ==
    [][\A t \in Tasks :
         RunEnds(t) => audiences'[run[t].audience_id].is_collecting = FALSE]_vars

\* C2: at most one run per audience is in the Collecting phase at any time.
C2_OneRunPerAudience ==
    \A a \in Audiences :
      Cardinality({t \in Tasks : /\ run[t].pc \in Collecting
                                 /\ run[t].audience_id = a}) <= 1

\* C3: the values a run writes to collection_progress, from its start up to
\* its terminal write, never decrease.
C3_ProgressNonDecreasing ==
    [][\A t \in Tasks :
         (run[t].pc \in Collecting /\ run'[t].pc \in Collecting)
           => run'[t].collection_progress >= run[t].collection_progress]_vars

C5_Completed ==
    [][\A t \in Tasks :
         (run[t].pc = "complete" /\ run'[t].pc \in {"themes", "returned"})
           => /\ audiences'[run[t].audience_id].collection_progress = 100
              /\ audiences'[run[t].audience_id].is_collecting = FALSE
              /\ audiences'[run[t].audience_id].last_collection_time = now
              /\ (run'[t].pc = "themes") <=> run[t].is_initial_collection]_vars

\* An initial run has completed, later than the start of the process, and is
\* about to generate themes.
C5_Witness ==
    \E t \in Tasks :
      /\ run[t].pc = "themes" /\ run[t].is_initial_collection
      /\ audiences[run[t].audience_id].collection_progress = 100
      /\ audiences[run[t].audience_id].is_collecting = FALSE
      /\ audiences[run[t].audience_id].last_collection_time = now
      /\ now > 0

\* C6: an audience that is not being collected has progress 0 or 100.
C6_IdleProgressTerminal ==
    \A a \in Audiences :
      (audiences[a].stored /\ ~audiences[a].is_collecting)
        => audiences[a].collection_progress \in {0, 100}

\* C7: an audience with is_collecting true eventually has it false again,
\* in every behaviour where the process is killed or shut down only finitely
\* often (so a restarted process remains to run the scheduler).
C7_CollectingEnds ==
    ([]<><<Crash \/ Shutdown>>_vars)
      \/ \A a \in Audiences :
           (audiences[a].is_collecting = TRUE) ~> (audiences[a].is_collecting = FALSE)

\* The elements of a sequence.
Range(q) == {q[n] : n \in 1..Len(q)}

\* C8: a cycle selects exactly the stored audiences that are not collecting
\* and were never collected or collected more than an hour ago: not one
\* collected 30 minutes ago, but one collected 90 minutes ago.
C8_Selection ==
    [][(sched.pc = "select" /\ sched'.pc = "for")
         => /\ Len(sched'.audience_ids) = Cardinality(Range(sched'.audience_ids))
            /\ \A a \in Audiences :
                 a \in Range(sched'.audience_ids)
                   <=> /\ audiences[a].stored
                       /\ ~audiences[a].is_collecting
                       /\ \/ audiences[a].last_collection_time = NoTime
                          \/ now - audiences[a].last_collection_time >= 3
            /\ \A a \in Audiences :
                 (/\ audiences[a].last_collection_time # NoTime
                  /\ audiences[a].last_collection_time = now - 1)
                   => a \notin Range(sched'.audience_ids)
            /\ \A a \in Audiences :
                 (/\ audiences[a].stored /\ ~audiences[a].is_collecting
                  /\ audiences[a].last_collection_time = now - 3)
                   => a \in Range(sched'.audience_ids)]_vars

\* A cycle has selected an audience collected 90 minutes before and left out
\* one collected 30 minutes before.
C8_Witness ==
    /\ sched.pc = "for"
    /\ \E a \in Range(sched.audience_ids) :
         audiences[a].last_collection_time = now - 3
    /\ \E a \in Audiences \ Range(sched.audience_ids) :
         /\ audiences[a].stored /\ ~audiences[a].is_collecting
         /\ audiences[a].last_collection_time # NoTime
         /\ audiences[a].last_collection_time = now - 1

\* C9: when a cycle is over, a collection was attempted for every audience
\* it selected, also when the run of one of them failed.
C9_EveryAudienceAttempted ==
    sched.pc = "sleep" => Range(sched.audience_ids) \subseteq sched.attempted

\* C10: once shutdown is signalled, the loop does not wait for its hourly
\* sleep to elapse: a sleeping loop can leave the sleep at once.
C10_ShutdownEndsSleep ==
    (should_continue_background_tasks = FALSE /\ sched.pc = "sleep")
      => ENABLED SchedWake

\* A fetch of task t's run returns in this step.
FetchReturns(t) ==
    /\ run[t].pc = "fetch"
    /\ run'[t].pc \in {"post", "progress", "complete"}

\* C11 as stated: every fetch of an incremental run asks for the timeframe
\* "hour" and keeps only posts created after the audience's
\* last_collection_time, also when that is null, and an incremental run
\* never goes on to theme generation.
C11_IncrementalFetch ==
    [][\A t \in Tasks :
         /\ (FetchReturns(t) /\ ~run[t].is_initial_collection)
              => /\ run'[t].timeframe = "hour"
                 /\ \A created_at \in run'[t].posts :
                      created_at > audiences[run[t].audience_id].last_collection_time
         /\ ~run[t].is_initial_collection => run'[t].pc # "themes"]_vars

\* C11 amended: the run fetches with the last_collection_time it loaded with
\* the audience; when that is set the fetch asks for "hour" with
\* min_created_at equal to it and keeps only posts created strictly after
\* it; when it is null the fetch asks for the audience's own timeframe with
\* no min_created_at; an incremental run never goes on to theme generation.
C11_IncrementalFetchAmended ==
    [][\A t \in Tasks :
         /\ (run[t].pc = "load" /\ run'[t].pc = "start")
              => run'[t].last_collection_time
                   = audiences[run[t].audience_id].last_collection_time
         /\ (FetchReturns(t) /\ ~run[t].is_initial_collection)
              => IF run[t].last_collection_time # NoTime
                 THEN /\ run'[t].timeframe = "hour"
                      /\ run'[t].min_created_at = run[t].last_collection_time
                      /\ \A created_at \in run'[t].posts :
                           created_at > run[t].last_collection_time
                 ELSE /\ run'[t].timeframe = AudienceTimeframe
                      /\ run'[t].min_created_at = NoTime
         /\ ~run[t].is_initial_collection => run'[t].pc # "themes"]_vars

\* An incremental run of an audience collected before has fetched with
\* "hour" and kept a post.
C11_Witness ==
    \E t \in Tasks :
      /\ run[t].pc = "post" /\ ~run[t].is_initial_collection
      /\ run[t].timeframe = "hour"
      /\ run[t].min_created_at # NoTime
      /\ run[t].posts # {}

\* C12: a rate-limited attempt is followed by a wait of
\* request_delay * 2^attempt and another attempt of the operation, up to
\* max_retries attempts; the failure propagated after rate-limited attempts
\* is the rate-limit failure, raised once max_retries attempts were made.
C12_RetryWithBackoff ==
    request.pc \in {"returned", "raised"}
      => /\ \A n \in 1..Len(request.backoffs) :
              request.backoffs[n] = RequestDelay * (2 ^ (n - 1))
         /\ request.executions = Len(request.backoffs) + 1
         /\ request.executions <= MaxRetries
         /\ request.pc = "raised" => request.error \in Outcomes
         /\ request.error = "TooManyRequests" => request.executions = MaxRetries

\* C13: an attempt that fails with anything but the rate-limit signal ends
\* the call with that failure at once, without a wait and without another
\* attempt; a failure of the operation itself is propagated after exactly
\* one attempt and no backoff.
C13_OtherFailurePropagates ==
    [][/\ (request.pc = "await" /\ request'.error \notin {"none", "TooManyRequests"})
          => /\ request'.pc = "raised"
             /\ request'.backoffs = request.backoffs
             /\ request'.delays = request.delays
       /\ request'.error = "Exception"
          => /\ request'.executions = 1
             /\ request'.attempt = 0
             /\ request'.backoffs = <<>>
       /\ request.pc = "raised" => request' \in {request, NoRequest}]_vars

\* The operation has failed with an ordinary error and the call has raised
\* it after its first attempt.
C13_Witness ==
    /\ request.pc = "raised" /\ request.error = "Exception"
    /\ request.executions = 1 /\ request.delays = 1

\* The items of 1..n for which Test holds, in increasing order.
ItemsInOrder(n, Test(_)) == SelectSeq([item \in 1..n |-> item], Test)

\* C14: _batch_process returns the results of the items whose processing
\* returned a result (a value other than None), in arrival order, and every
\* item was processed, whatever became of the items before it.
C14_BatchResults ==
    batch.pc = "returned"
      => /\ LET Succeeded(item) == batch.outcome[item] = "value"
            IN batch.results = ItemsInOrder(batch.items, Succeeded)
         /\ \A item \in 1..batch.items : batch.outcome[item] # "pending"

\* A call over two batches has returned; the first item raised and the later
\* item of its batch and the item of the next batch were returned.
C14_Witness ==
    /\ batch.pc = "returned" /\ batch.items = 3 /\ batch.batch_size = 2
    /\ batch.outcome[1] = "raised"
    /\ batch.results = <<2, 3>>

\* ------------------------------------------------------------------- C15
\* C15: no comment that a collection returns has a depth above max_depth,
\* and the path of every returned comment is as long as its depth.
C15_DepthAndPath ==
    collect.pc = "returned" =>
      \A i \in 1..Len(collect.returned) :
        /\ collect.returned[i].depth <= collect.config.max_depth
        /\ Len(collect.returned[i].path) = collect.returned[i].depth

\* ------------------------------------------------------------------- C16
\* The external ids of the returned comments.
ReturnedIds == {collect.returned[i].reddit_id : i \in 1..Len(collect.returned)}

\* The thresholds of the builder that ran: the score asked of a comment at a
\* depth, and the least length of a body (collect_post_comments asks only
\* that the body is not empty, line 589).
Threshold(depth) ==
    IF collect.service = "reddit"
    THEN min_score_at_depth(collect.config, depth)
    ELSE ServiceMinScore

MinLength == IF collect.service = "reddit" THEN 1 ELSE ServiceMinLength

\* C16: a top-level comment is returned if and only if its score is at least
\* the threshold of depth 0, its body is at least the minimum length, it is
\* well-formed and it was not stored before; a returned top-level comment has
\* depth 0 and an empty path; no comment below the score or length threshold
\* of its depth is returned.
C16_TopLevelFilter ==
    collect.pc = "returned" =>
      /\ \A c \in CommentIds :
           collect.submission.parent_id[c] = 0 =>
             (c \in ReturnedIds <=>
                /\ collect.submission.data[c].score >= Threshold(0)
                /\ collect.submission.data[c].body >= MinLength
                /\ collect.submission.data[c].author
                /\ c \notin collect.existing_comments)
      /\ \A i \in 1..Len(collect.returned) :
           LET comment == collect.returned[i]
               comment_data == collect.submission.data[comment.reddit_id]
           IN  /\ collect.submission.parent_id[comment.reddit_id] = 0 =>
                    comment.depth = 0 /\ comment.path = <<>>
               /\ comment_data.score >= Threshold(comment.depth)
               /\ comment_data.body >= MinLength

\* ------------------------------------------------------------------- C19
\* C19: the returned list holds no comment whose external id was stored for
\* the post before the call, no external id is stored twice, and a returned
\* reply to a comment that was stored before and is collected again refers to
\* the stored row of that comment.
C19_OnlyNewReturned ==
    collect.pc = "returned" =>
      /\ ReturnedIds \cap collect.existing_comments = {}
      /\ \A i, j \in 1..Len(comments_table) :
           comments_table[i].reddit_id = comments_table[j].reddit_id => i = j
      /\ \A i \in 1..Len(collect.returned) :
           LET comment == collect.returned[i]
           IN  /\ comment.reddit_parent_id \in collect.existing_comments
               /\ \E k \in 1..Len(collect.comments) :
                    collect.comments[k].reddit_id = comment.reddit_parent_id
               => comment.parent_id =
                    RowOf(comments_table, comment.reddit_parent_id)

\* ------------------------------------------------------------------- C17
\* The comments a comment is a reply to, directly or through other replies.
RECURSIVE Ancestors(_, _)
Ancestors(submission, c) ==
    IF submission.parent_id[c] = 0 THEN {}
    ELSE {submission.parent_id[c]}
           \cup Ancestors(submission, submission.parent_id[c])

\* C17: no returned comment has an ancestor that the score or length filter
\* dropped.
C17_DroppedSubtree ==
    collect.pc = "returned" =>
      \A c \in ReturnedIds :
        \A a \in Ancestors(collect.submission, c) :
          /\ collect.submission.data[a].score >=
               Threshold(CommentDepth(collect.submission, a))
          /\ collect.submission.data[a].body >= MinLength

\* ------------------------------------------------------------------- C18
\* A placeholder: a raw comment without author and creation time.
Placeholders == {p \in CommentIds : ~collect.submission.data[p].author}

\* The post with the placeholder p replaced by a comment that is kept.
WithKept(p) ==
    [collect.submission EXCEPT
       !.data[p] = [author |-> TRUE, body |-> 25, score |-> 4]]

\* The comment of external id c in a list of comments.
Listed(comments, c) ==
    comments[CHOOSE k \in 1..Len(comments) : comments[k].reddit_id = c]

RECURSIVE DepthFirst(_, _)
DepthFirst(submission, comments_list) ==
    IF comments_list = <<>> THEN <<>>
    ELSE <<Head(comments_list)>>
           \o DepthFirst(submission, Replies(submission, Head(comments_list)))
           \o DepthFirst(submission, Tail(comments_list))

\* C20: the returned comments are in depth-first order, each after its
\* parent; and a stored comment that refers to a parent refers to the id of
\* the stored row of the comment it replies to.
C20_ParentsFirst ==
    /\ collect.pc = "returned" =>
         /\ [i \in 1..Len(collect.returned) |-> collect.returned[i].reddit_id]
              = SelectSeq(DepthFirst(collect.submission,
                                     Replies(collect.submission, 0)),
                          LAMBDA c : c \in ReturnedIds)
         /\ \A i, j \in 1..Len(collect.returned) :
              collect.returned[j].reddit_id
                = collect.returned[i].reddit_parent_id => j < i
    /\ \A i \in 1..Len(comments_table) :
         comments_table[i].parent_id # NoId =>
           /\ comments_table[i].parent_id \in 1..Len(comments_table)
           /\ comments_table[comments_table[i].parent_id].reddit_id
                = comments_table[i].reddit_parent_id

\* A new reply has been returned after its new parent, out of the order of
\* the external ids, and is stored with the id of the parent's row.
C20_Witness ==
    /\ collect.pc = "returned"
    /\ collect.existing_comments = {}
    /\ \E i, j \in 1..Len(collect.returned) :
         /\ j < i
         /\ collect.returned[j].reddit_id = collect.returned[i].reddit_parent_id
         /\ collect.returned[i].parent_id = collect.returned[j].id
         /\ collect.returned[j].id # NoId
         /\ \E k \in 1..Len(collect.returned) :
              k > i /\ collect.returned[k].reddit_id < collect.returned[i].reddit_id
         /\ \E r \in 1..Len(comments_table) :
              /\ comments_table[r].reddit_id = collect.returned[i].reddit_id
              /\ comments_table[r].parent_id = collect.returned[j].id

\* ------------------------------------------------------------------- C21
\* C21: the comments of a post are fetched only when the post is in the
\* store and the run has committed it.
C21_PostBeforeComments ==
    [][\A post \in loop'.fetched \ loop.fetched :
         post \in posts_table /\ post \in loop.stored]_vars

\* The comments of the second post of the second subreddit were fetched.
C21_Witness ==
    /\ <<2, 2>> \in loop.fetched
    /\ <<2, 2>> \in posts_table

\* ------------------------------------------------------------------- C25
\* C25: a run in which the processing of a post or the collection of its
\* comments failed takes up every other post and subreddit and ends
\* completed: it does not end raised, and when it has ended every subreddit
\* was gone through, with progress 100 and is_collecting false.
C25_PostFailureContinues ==
    loop.failed # {} =>
      /\ loop.pc \notin {"except", "recover", "raised"}
      /\ loop.pc = "returned" =>
           /\ loop.i = loop.total_subreddits
           /\ loop.collection_progress = Done
           /\ ~loop.is_collecting

\* ------------------------------------------------------------------- C22
\* C22: for every non-negative score, comment count and depth, every upvote
\* ratio in [0,1] and every setting of the flags, the value the post score
\* and the comment score return lies in [0,1].
C22_ScoreInUnitInterval ==
    engagement.pc = "returned" =>
        /\ 0 < engagement.result.den
        /\ 0 <= engagement.result.num
        /\ engagement.result.num <= engagement.result.den

\* The comment score of a submitter's comment whose quotient exceeds 1: the
\* function returns 1.
C22_Witness ==
    /\ engagement.pc = "returned"
    /\ engagement.fn = "comment"
    /\ engagement.input.score = CommentNormaliser * MaxScoreFactor
    /\ engagement.input.is_submitter
    /\ engagement.result.num = engagement.result.den


Matching(category) ==
    {i \in DOMAIN theme_run.posts :
        \/ category \in MetricCategories
        \/ theme_run.posts[i].in_content
        \/ theme_run.posts[i].in_comments}

\* C24: a category that fewer than 3 posts of the corpus match gets no
\* Theme and no ThemePost, at any point of theme generation.
C24_ThreePostsPerTheme ==
    \A category \in Categories :
        Cardinality(Matching(category)) < MinPostsPerTheme =>
            /\ category \notin theme_run.themes
            /\ \A tp \in theme_run.theme_posts : tp[1] # category

\* Generation returned for a corpus of which exactly 2 posts match the
\* keyword category: the metric category has its theme, the keyword
\* category has none.
C24_Witness ==
    /\ theme_run.pc = "returned"
    /\ Cardinality(Matching("Advice Requests")) = MinPostsPerTheme - 1
    /\ theme_run.themes = {"Top Content"}
    /\ Cardinality(theme_run.theme_posts) >= MinPostsPerTheme


\* ------------------------------------------------------------------- C26
\* A started run of task t for an audience that has no subreddit.
NoCommunities(t) ==
    /\ run[t].started
    /\ audiences[run[t].audience_id].subreddits = 0

\* C26: a started run for an audience without subreddits issues no fetch and
\* does not complete; the ValueError of line 128 takes it to the handlers,
\* whose reset leaves the audience with is_collecting false and progress 0,
\* and from there to the caller as raised (unless the task is cancelled or
\* the process killed), never back into the collection; last_collection_time
\* is not written.
C26_NoCommunitiesFails ==
    [][\A t \in Tasks :
         NoCommunities(t) =>
           /\ run'[t].pc \notin {"progress", "fetch", "post", "complete",
                                 "themes", "returned", "load", "start"}
           /\ run[t].pc = "subs" =>
                run'[t].pc \in {"subs", "except", "cancelled", "idle"}
           /\ run[t].pc = "except" =>
                run'[t].pc \in {"except", "recover", "cancelled", "idle"}
           /\ run[t].pc = "recover" =>
                run'[t].pc \in {"recover", "raised", "cancelled", "idle"}
           /\ (run[t].pc = "except" /\ run'[t].pc = "recover") =>
                /\ audiences'[run[t].audience_id].is_collecting = FALSE
                /\ audiences'[run[t].audience_id].collection_progress = 0
           /\ (run[t].pc = "recover" /\ run'[t].pc = "raised"
                 /\ run'[t].reset_ok) =>
                /\ audiences'[run[t].audience_id].is_collecting = FALSE
                /\ audiences'[run[t].audience_id].collection_progress = 0
           /\ audiences'[run[t].audience_id].last_collection_time =
                audiences[run[t].audience_id].last_collection_time]_vars

\* A started run for the audience without subreddits has ended raised, the
\* audience is not collecting, at progress 0 and was never collected.
C26_Witness ==
    \E t \in Tasks :
      /\ NoCommunities(t)
      /\ run[t].pc = "raised"
      /\ audiences[run[t].audience_id].is_collecting = FALSE
      /\ audiences[run[t].audience_id].collection_progress = 0
      /\ audiences[run[t].audience_id].last_collection_time = NoTime


\* ------------------------------------------------------------------- C27
\* C27: a run whose token is cancelled when it reaches the start of a
\* subreddit iteration does not go on to fetch that subreddit (a token
\* cancelled before the call stops the run before its first fetch).
C27_CooperativeCancel ==
    [][(cancellation_token.is_cancelled /\ loop.pc = "progress")
         => loop'.pc # "fetch"]_vars


\* ------------------------------------------------------------------- C28
\* The step of a handler of the given kinds that returned 200.
Handled(ops) ==
    /\ store'.requests = store.requests + 1
    /\ store'.last.op \in ops
    /\ store'.last.status = Ok

\* The subreddits the step took from the audience of the request.
Affected ==
    SubredditsOf(store, store'.last.audience_id)
      \ SubredditsOf(store', store'.last.audience_id)

\* C28: when a delete or an update takes a subreddit from an audience, the
\* posts of that subreddit are all kept if another audience has it and all
\* deleted if none has.
C28_PostRetention ==
    [][Handled({"delete", "update"}) =>
         \A name \in Affected :
            IF \E other \in StoreAudiences :
                  /\ other # store'.last.audience_id
                  /\ <<other, name>> \in store'.memberships
            THEN PostsOf(store', {name}) = PostsOf(store, {name})
            ELSE PostsOf(store', {name}) = {}]_vars

\* An audience with a shared and a unique subreddit was deleted: the posts
\* of the shared one are in the store, those of the unique one were deleted.
C28_Witness ==
    /\ store.last.op = "delete"
    /\ store.last.status = Ok
    /\ \E shared \in store.last.removed_subreddit_names,
          unique \in store.last.removed_subreddit_names :
         /\ \E other \in StoreAudiences : <<other, shared>> \in store.memberships
         /\ Cardinality(PostsOf(store, {shared})) = MaxStorePosts
         /\ \A other \in StoreAudiences : <<other, unique>> \notin store.memberships
         /\ Cardinality({post \in store.last.post_ids : post[1] = unique})
              = MaxStorePosts
         /\ PostsOf(store, {unique}) = {}

\* ------------------------------------------------------------------- C29
\* No Theme, ThemePost or ThemeQuestion of the audience is in the store.
NoThemeData(st, audience_id) ==
    /\ audience_id \notin st.themes
    /\ \A tp \in st.theme_posts : tp[1] # audience_id
    /\ audience_id \notin st.theme_questions

\* C29: after a delete of an audience, and after an update that takes a
\* subreddit from it, no Theme, ThemePost or ThemeQuestion of the audience
\* is in the store; after a delete no membership of it either.
C29_ThemeCleanup ==
    [][/\ Handled({"delete"}) =>
            /\ NoThemeData(store', store'.last.audience_id)
            /\ SubredditsOf(store', store'.last.audience_id) = {}
       /\ (Handled({"update"}) /\ Affected # {}) =>
            NoThemeData(store', store'.last.audience_id)]_vars

\* An update took a subreddit from an audience that keeps another one: the
\* theme it had was deleted and nothing of it is left.
C29_Witness ==
    /\ store.last.op = "update"
    /\ store.last.status = Ok
    /\ store.last.removed_subreddit_names # {}
    /\ store.last.theme_ids = {store.last.audience_id}
    /\ SubredditsOf(store, store.last.audience_id) # {}
    /\ NoThemeData(store, store.last.audience_id)

\* ------------------------------------------------------------------- C30
\* C30: a read of the themes or a refresh request for an audience that is
\* collecting is answered 202, and leaves every Theme and ThemePost as it
\* was.
C30_CollectingRejected ==
    [][(/\ store'.requests = store.requests + 1
        /\ store'.last.op \in {"themes", "refresh"}
        /\ store'.last.audience_id \in store.audiences
        /\ store'.last.audience_id \in store.collecting)
         => /\ store'.last.status = Accepted
            /\ store'.themes = store.themes
            /\ store'.theme_posts = store.theme_posts]_vars

\* A refresh for a collecting audience that has a theme with ThemePost rows
\* was answered 202 and the theme is still there.
C30_Witness ==
    /\ store.last.op = "refresh"
    /\ store.last.status = Accepted
    /\ store.last.audience_id \in store.collecting
    /\ store.last.audience_id \in store.themes
    /\ \E tp \in store.theme_posts : tp[1] = store.last.audience_id


\* ------------------------------------------------------------------- C32
\* C32: when the initial-data task of a created audience finishes without
\* error (a step of the task itself, not the end of the process), the
\* audience is not collecting and its collection_progress is 100: the
\* collection of line 56 has run to its terminal write.
C32_InitialCollectionRuns ==
    [][(/\ initial_task.pc = "finally"
        /\ initial_task'.pc = "done"
        /\ initial_task.exc = "none"
        /\ sched' = sched
        /\ audiences[initial_task.audience_id].stored)
         => /\ audiences'[initial_task.audience_id].is_collecting = FALSE
            /\ audiences'[initial_task.audience_id].collection_progress = Done]_vars


\* ------------------------------------------------------------------- C34
\* C34: the attempt that follows a rate-limited attempt and its backoff
\* executes the operation again, and a call that was rate-limited never
\* ends with an error the operation did not raise (so that an operation the
\* source accepts on that attempt returns its result to the caller).
C34_RetryReexecutes ==
    [][(request.pc = "await" /\ request.backoffs # <<>>
          /\ request'.pc # "await")
         => /\ request'.executions = request.executions + 1
            /\ request'.error \in Outcomes \cup {"none"}]_vars


\* ------------------------------------------------------------------- C36
\* C36: when a run that is alone on its audience makes the failure reset
\* of its inner handler (is_collecting False, collection_progress 0), the
\* audience's last_collection_time is the one the run loaded at its start.
C36_FailureKeepsCollectionTime ==
    [][(/\ run["caller"].pc = "except"
        /\ run'["caller"].pc = "recover"
        /\ audiences'[run["caller"].audience_id].is_collecting = FALSE
        /\ audiences'[run["caller"].audience_id].collection_progress = 0)
         => audiences'[run["caller"].audience_id].last_collection_time
              = run["caller"].last_collection_time]_vars


\* ------------------------------------------------------------------- C38
\* C38: once the runs of two tasks (the scheduler's run of one audience and
\* the initial collection of another one sharing a community) have both
\* finished classifying the same post, that post has at most one
\* PostAnalysis record.
C38_SharedPostOneAnalysis ==
    (/\ analyzer["scheduler"].pc = "idle"
     /\ analyzer["initial"].pc = "idle"
     /\ analyzer["scheduler"].post \in AnalysisPosts
     /\ analyzer["scheduler"].post = analyzer["initial"].post)
      => post_analysis[analyzer["scheduler"].post] <= 1


\* ------------------------------------------------------------------- C39
\* C39: after an update answered 200, every subreddit the audience had and
\* still has (under whatever spelling the request named it) keeps all its
\* posts, and when the audience lost no subreddit its Theme, ThemePost and
\* ThemeQuestion rows are the ones it had.
C39_KeptWhateverTheCase ==
    [][Handled({"update"}) =>
         /\ \A name \in SubredditsOf(store, store'.last.audience_id)
                          \cap SubredditsOf(store', store'.last.audience_id) :
               PostsOf(store', {name}) = PostsOf(store, {name})
         /\ Affected = {} =>
              /\ store'.themes = store.themes
              /\ store'.theme_posts = store.theme_posts
              /\ store'.theme_questions = store.theme_questions]_vars


C33_RecentCommentUntouched ==
    comment_update.pc \in {"returned", "raised"} =>
        /\ comment_update.pc = "returned"
        /\ \A comment \in StoredComments :
              recently_updated(comment_update.age[comment],
                               comment_update.min_age_hours)
                => /\ comment \notin comment_update.changed
                   /\ comment \notin comment_update.updated_comments


\* ------------------------------------------------------------------- C31
\* C31: when a refresh request returns its new themes, no theme it found
\* at its start is in the table any more, and every question that was
\* attached to one of them is in the table, attached to a theme that is.
C31_RefreshKeepsQuestions ==
    [][\A c \in Clients :
         (themes_table.client[c].pc = "analyze"
            /\ themes_table'.client[c].pc = "returned")
         => /\ theme_ids(themes_table'.themes)
                 \cap themes_table.client[c].old_theme_ids = {}
            /\ \A asked \in themes_table.client[c].asked :
                  \E question \in themes_table'.questions :
                     /\ question.id = asked
                     /\ question.theme_id \in theme_ids(themes_table'.themes)]_vars

\* ------------------------------------------------------------------- C37
\* C37: when the initial task has run and no refresh request is under way,
\* no two Theme rows of the audience have the same category.
C37_OneThemePerCategory ==
    (/\ ~themes_table.initial
     /\ \A c \in Clients :
          themes_table.client[c].pc \in {"idle", "returned", "accepted",
                                         "not_found"})
      => \A one \in themes_table.themes, other \in themes_table.themes :
            one.category = other.category => one = other


====
